---- MODULE Spec2Model ----
(***************************************************************************)
(* Finance tracker (Telegram Mini App): the retry helper of the API        *)
(* client, the statistics pass of FinanceApp, the TelegramWebApp adapter   *)
(* and the relational schema, each modelled as a state machine.            *)
(*                                                                         *)
(* Strings of the sources that are not ASCII are transliterated:           *)
(*   "Prochee" stands for the Cyrillic fallback category name of           *)
(*   app.js:401 and "-" for the dash of app.js:387.                        *)
(***************************************************************************)
EXTENDS Integers, Sequences, FiniteSets, TLC

(***************************************************************************)
(* Bounds of the model.                                                    *)
(***************************************************************************)
MaxRetriesBound == 3
MaxTx == 3          \* longest list of loaded transactions
MaxAmount == 2      \* largest amount of a loaded transaction (minor units)
MaxDbAmount == 1    \* largest amount a statement tries to store (minor units)
MaxApplications == 2 \* applications of migration 002
MaxManual == 2      \* other INSERT statements on categories
MaxFormAmount == 2  \* largest amount entered in the form
MaxRequests == 4    \* getTransactions requests issued
MaxTime == 2        \* the clock runs from 0 to MaxTime

VARIABLES
    \* ---- API.retryRequest (app.js:1701-1713) ----
    retryPc,        \* position of the one activation of retryRequest
    maxRetries,     \* parameter maxRetries
    initialDelay,   \* the value of parameter delay at the call
    delay,          \* local variable delay (doubled after every wait)
    i,              \* loop variable i
    calls,          \* history: one record per call of requestFn
    waits,          \* history: the delays handed to setTimeout
    retryResult,    \* how the promise returned by retryRequest settled
    \* ---- FinanceApp (app.js:6-22) ----
    response,       \* the rows the server answers GET /transactions with
    transactions,   \* this.transactions
    stats,          \* this.stats
    lastLoad,       \* the loader that assigned this.transactions last
    \* ---- TelegramWebApp (telegram.js:6-13) and its host ----
    hostname,       \* window.location.hostname
    sdk,            \* window.Telegram.WebApp, the host bridge object
    tg,             \* this.tg
    user,           \* this.user
    initData,       \* this.initData
    isReady,        \* this.isReady
    tgPc,           \* position inside the constructor / init
    lastCall,       \* what the latest adapter call did
    \* ---- the database (schema.sql) ----
    dbUsers,        \* table users
    dbCategories,   \* table categories
    dbTransactions, \* table transactions
    dbLast,         \* the outcome of the latest statement: "rejected", or
                    \* "accepted", a DELETE on users or categories by its name
    \* ---- the timestamp columns and triggers (schema.sql:18-19, 52-53, 72-84) ----
    now,            \* what NOW() returns
    tsUsers,        \* table users: id, created_at, updated_at
    tsCategories,   \* table categories: id, is_active
    tsTransactions, \* table transactions: id, category_id, created_at, updated_at
    tsLast,         \* the kind of the latest statement
    \* ---- the seed migration (migrations/002_seed_categories.sql) ----
    seedCategories, \* table categories: id, name, type
    seedSeq,        \* the next value of the sequence behind categories.id
    seedRuns,       \* how many times the migration has been applied
    seedManual,     \* how many other INSERT statements have run
    seedLast,       \* the outcome of the latest statement
    \* ---- API.validateTransaction (app.js:1669-1696) ----
    vData,          \* the argument: type, amount, category_id, date
    vResult,        \* what the call returned, NoResult before it
    \* ---- the transaction modal (app.js:817-1087) ----
    form,               \* the fields of #transactionForm, as entered
    handlerPc,          \* where saveTransaction or deleteTransaction stands
    transactionId,      \* the handler's const transactionId
    inFlight,           \* the request the handler awaits
    handlerLog,         \* what the running (or latest) handler has done, in order
    modalActive,        \* #transactionModal has class 'active'
    modalClosing,       \* it has class 'closing' and the timer of closeModal runs
    currentTransaction, \* this.currentTransaction
    currentSection,     \* this.currentSection
    loaded,             \* this.transactions
    alertShown,         \* the text of the latest alert, a sequence of lines
    \* ---- API.request (app.js:1334-1391) ----
    reqPc,          \* where the call stands: idle, fetching, reading, settled
    reqResponse,    \* the Response fetch resolved with
    reqOutcome,     \* how the promise of request settled
    \* ---- FinanceApp.init and the loaders (app.js:27-146, 247-338) ----
    initPc,         \* where init stands
    categoriesFrom, \* this.categories: none, server or fallback
    chartsReady,    \* setupCharts has run
    activeSection,  \* this.currentSection
    dateFilter,     \* what window.getCurrentDateFilter() returns
    requests,       \* the getTransactions requests in flight
    issued,         \* how many have been issued
    lastIssued,     \* per container, the number of the latest request for it
    shown,          \* per container, what it displays
    stored,         \* the number of the request whose response is this.transactions
    expenseChart    \* the number of the request whose response the chart draws

retryVars == <<retryPc, maxRetries, initialDelay, delay, i, calls, waits, retryResult>>

appVars == <<response, transactions, stats, lastLoad>>

tgVars == <<hostname, sdk, tg, user, initData, isReady, tgPc, lastCall>>

dbTables == <<dbUsers, dbCategories, dbTransactions>>

dbVars == <<dbUsers, dbCategories, dbTransactions, dbLast>>

tsVars == <<now, tsUsers, tsCategories, tsTransactions, tsLast>>

seedVars == <<seedCategories, seedSeq, seedRuns, seedManual, seedLast>>

validateVars == <<vData, vResult>>

modalVars == <<form, handlerPc, transactionId, inFlight, handlerLog, modalActive, modalClosing, currentTransaction, currentSection, loaded, alertShown>>

reqVars == <<reqPc, reqResponse, reqOutcome>>

loaderVars == <<initPc, categoriesFrom, chartsReady, activeSection, dateFilter, requests, issued, lastIssued, shown, stored, expenseChart>>

\* The components added after the first four.
restVars == <<tsVars, seedVars, validateVars, modalVars, reqVars, loaderVars>>

othersTs == <<retryVars, appVars, tgVars, dbVars, seedVars, validateVars, modalVars, reqVars, loaderVars>>
othersSeed == <<retryVars, appVars, tgVars, dbVars, tsVars, validateVars, modalVars, reqVars, loaderVars>>
othersValidate == <<retryVars, appVars, tgVars, dbVars, tsVars, seedVars, modalVars, reqVars, loaderVars>>
othersModal == <<retryVars, appVars, tgVars, dbVars, tsVars, seedVars, validateVars, reqVars, loaderVars>>
othersReq == <<retryVars, appVars, tgVars, dbVars, tsVars, seedVars, validateVars, modalVars, loaderVars>>
othersLoader == <<retryVars, appVars, tgVars, dbVars, tsVars, seedVars, validateVars, modalVars, reqVars>>

vars == <<retryVars, appVars, tgVars, dbVars, restVars>>

(***************************************************************************)
(* API.retryRequest                                                        *)
(***************************************************************************)
Values == {"v1", "v2"}          \* results requestFn may resolve with
Errors == {"e1", "e2"}          \* errors requestFn may reject with
Delays == {1, 500, 1000}        \* delay arguments tried (1000 is the default)
Undefined == "undefined"

RetryIdle ==
    /\ retryPc = "idle"
    /\ maxRetries = 0
    /\ initialDelay = 0
    /\ delay = 0
    /\ i = 0
    /\ calls = <<>>
    /\ waits = <<>>
    /\ retryResult = [kind |-> "pending", value |-> Undefined]

\* app.js:1702  the loop condition
LoopContinues(k, m) == k < m

\* Variant: the last attempt is recognised one iteration late.
IsLastAttemptOffByOne(k, m) == k = m
\* app.js:1706  if (i === maxRetries - 1) throw error;
IsLastAttempt(k, m) == k = m - 1

\* Variant: the delay is not doubled.
NextDelayConstant(d) == d
\* app.js:1710  delay *= 2;
NextDelay(d) == d * 2

\* The head of one loop iteration (app.js:1702-1704): either requestFn is
\* called, or the loop is over and the function returns undefined.
EnterIteration(k, m) ==
    IF LoopContinues(k, m)
    THEN /\ retryPc' = "calling"
         /\ calls' = Append(calls, [state |-> "pending", value |-> Undefined])
         /\ UNCHANGED retryResult
    ELSE /\ retryPc' = "settled"
         /\ retryResult' = [kind |-> "resolved", value |-> Undefined]
         /\ UNCHANGED calls

\* retryRequest(requestFn, maxRetries, delay) is called.
RetryRequest(m, d) ==
    /\ retryPc = "idle"
    /\ maxRetries' = m
    /\ initialDelay' = d
    /\ delay' = d
    /\ i' = 0
    /\ EnterIteration(0, m)
    /\ UNCHANGED waits
    /\ UNCHANGED <<appVars, tgVars, dbVars, restVars>>

\* The pending call of requestFn resolves: return await requestFn().
RequestSucceeds(v) ==
    /\ retryPc = "calling"
    /\ calls' = [calls EXCEPT ![Len(calls)] = [state |-> "ok", value |-> v]]
    /\ retryPc' = "settled"
    /\ retryResult' = [kind |-> "resolved", value |-> v]
    /\ UNCHANGED <<maxRetries, initialDelay, delay, i, waits>>
    /\ UNCHANGED <<appVars, tgVars, dbVars, restVars>>

\* The pending call of requestFn rejects: the catch block (app.js:1705-1711).
RequestFails(e) ==
    /\ retryPc = "calling"
    /\ calls' = [calls EXCEPT ![Len(calls)] = [state |-> "failed", value |-> e]]
    /\ IF IsLastAttempt(i, maxRetries)
       THEN /\ retryPc' = "settled"
            /\ retryResult' = [kind |-> "rejected", value |-> e]
            /\ UNCHANGED waits
       ELSE /\ retryPc' = "waiting"
            /\ waits' = Append(waits, delay)
            /\ UNCHANGED retryResult
    /\ UNCHANGED <<maxRetries, initialDelay, delay, i>>
    /\ UNCHANGED <<appVars, tgVars, dbVars, restVars>>

\* The timer of app.js:1709 fires: delay *= 2, i++, next iteration.
TimerFires ==
    /\ retryPc = "waiting"
    /\ delay' = NextDelay(delay)
    /\ i' = i + 1
    /\ EnterIteration(i + 1, maxRetries)
    /\ UNCHANGED <<maxRetries, initialDelay, waits>>
    /\ UNCHANGED <<appVars, tgVars, dbVars, restVars>>

NextRetry ==
    \/ \E m \in 0..MaxRetriesBound, d \in Delays : RetryRequest(m, d)
    \/ \E v \in Values : RequestSucceeds(v)
    \/ \E e \in Errors : RequestFails(e)
    \/ TimerFires

(***************************************************************************)
(* FinanceApp.calculateStats (app.js:380-422)                              *)
(*                                                                         *)
(* Amounts are numbers in minor units.  A row carries the columns the      *)
(* statistics pass reads: type, amount, category_name ("" when the row has *)
(* no category name, which JavaScript treats as false in line 401).        *)
(***************************************************************************)
Types == {"income", "expense"}                  \* schema.sql:47
CategoryNames == {"Produkty", "Prochee", "7", "12"}
NoName == ""
Prochee == "Prochee"                            \* app.js:401
Dash == "-"                                     \* app.js:387

Rows == [type : Types, amount : 1..MaxAmount, category_name : CategoryNames \cup {NoName}]
TxLists == UNION {[1..n -> Rows] : n \in 0..MaxTx}

\* The value of a property name that is an array index, -1 for any other
\* name.  Object.keys lists array-index names first, in ascending numeric
\* order, and the other names after them in the order of their creation.
ArrayIndex(name) == CASE name = "7" -> 7 [] name = "12" -> 12 [] OTHER -> -1

EmptyObject == [x \in {} |-> 0]

\* A number divided by a number, kept exact as a fraction.
Divide(a, b) == [num |-> a, den |-> b]
Zero == [num |-> 0, den |-> 1]

RECURSIVE InsertIndex(_, _)
\* keys: ascending sequence of array-index names; the same with name added.
InsertIndex(keys, name) ==
    IF keys = <<>> THEN <<name>>
    ELSE IF ArrayIndex(name) < ArrayIndex(Head(keys)) THEN <<name>> \o keys
    ELSE <<Head(keys)>> \o InsertIndex(Tail(keys), name)

\* An object as categoryTotals: its values, and its own keys in the two
\* groups Object.keys concatenates.
NewObject == [val |-> EmptyObject, indexKeys |-> <<>>, stringKeys |-> <<>>]

Has(obj, name) == name \in DOMAIN obj.val

\* obj[name] || 0
GetOrZero(obj, name) == IF Has(obj, name) THEN obj.val[name] ELSE 0

\* obj[name] = v
Put(obj, name, v) ==
    [val |-> [k \in (DOMAIN obj.val) \cup {name} |-> IF k = name THEN v ELSE obj.val[k]],
     indexKeys |-> IF Has(obj, name) \/ ArrayIndex(name) < 0 THEN obj.indexKeys
                   ELSE InsertIndex(obj.indexKeys, name),
     stringKeys |-> IF Has(obj, name) \/ ArrayIndex(name) >= 0 THEN obj.stringKeys
                    ELSE Append(obj.stringKeys, name)]

\* Object.keys(obj)
ObjectKeys(obj) == obj.indexKeys \o obj.stringKeys

\* app.js:381-388
InitialStats(txs) ==
    [totalIncome |-> 0, totalExpense |-> 0, balance |-> 0, count |-> Len(txs),
     avgExpense |-> Zero, topCategory |-> Dash]

\* Variant: every row is added to totalExpense.
ForEachBodyNoIncomeBranch(acc, t) ==
    [acc EXCEPT !.stats.totalExpense = @ + t.amount]
\* app.js:392-404  the body of the forEach
ForEachBody(acc, t) ==
    IF t.type = "income"
    THEN [acc EXCEPT !.stats.totalIncome = @ + t.amount]
    ELSE LET categoryName == IF t.category_name # NoName THEN t.category_name ELSE Prochee
         IN  [stats |-> [acc.stats EXCEPT !.totalExpense = @ + t.amount],
              categoryTotals |-> Put(acc.categoryTotals, categoryName,
                                     GetOrZero(acc.categoryTotals, categoryName) + t.amount)]

RECURSIVE ForEach(_, _, _)
ForEach(txs, k, acc) ==
    IF k > Len(txs) THEN acc ELSE ForEach(txs, k + 1, ForEachBody(acc, txs[k]))

\* Variant: the divisor counts every row.
ExpenseCountAll(txs) == Len(txs)
\* app.js:409
ExpenseCount(txs) == Cardinality({k \in 1..Len(txs) : txs[k].type = "expense"})

\* Variant: a later category of equal total replaces the top one.
ExceedsOrEquals(a, b) == a >= b
\* app.js:417  categoryTotals[category] > maxAmount
Exceeds(a, b) == a > b

RECURSIVE FindTop(_, _, _, _, _)
\* app.js:415-421
FindTop(obj, keys, k, maxAmount, top) ==
    IF k > Len(keys) THEN top
    ELSE IF Exceeds(obj.val[keys[k]], maxAmount)
         THEN FindTop(obj, keys, k + 1, obj.val[keys[k]], keys[k])
         ELSE FindTop(obj, keys, k + 1, maxAmount, top)

CalculateStats(txs) ==
    LET acc == ForEach(txs, 1, [stats |-> InitialStats(txs), categoryTotals |-> NewObject])
        s1 == [acc.stats EXCEPT !.balance = acc.stats.totalIncome - acc.stats.totalExpense]
        expenseCount == ExpenseCount(txs)
        s2 == IF expenseCount > 0
              THEN [s1 EXCEPT !.avgExpense = Divide(s1.totalExpense, expenseCount)]
              ELSE s1
    IN  [s2 EXCEPT !.topCategory =
             FindTop(acc.categoryTotals, ObjectKeys(acc.categoryTotals), 1, 0, s2.topCategory)]

\* The constructor (app.js:7-20) before any response has arrived.
AppIdle ==
    /\ response = <<>>
    /\ transactions = <<>>
    /\ stats = EmptyObject
    /\ lastLoad = "none"

InitStats ==
    /\ response \in TxLists
    /\ transactions = <<>>
    /\ stats = EmptyObject
    /\ lastLoad = "none"

\* loadDashboard once the response has arrived (app.js:264-267).
LoadDashboard ==
    /\ transactions' = response
    /\ stats' = CalculateStats(response)
    /\ lastLoad' = "dashboard"
    /\ UNCHANGED response
    /\ UNCHANGED <<retryVars, tgVars, dbVars, restVars>>

\* loadAllTransactions once the response has arrived (app.js:311): the list
\* is replaced, the statistics are not recomputed.
LoadAllTransactions ==
    /\ transactions' = response
    /\ lastLoad' = "all"
    /\ UNCHANGED <<response, stats>>
    /\ UNCHANGED <<retryVars, tgVars, dbVars, restVars>>

NextStats ==
    \/ LoadDashboard
    \/ LoadAllTransactions
(***************************************************************************)
(* TelegramWebApp (telegram.js)                                            *)
(*                                                                         *)
(* null and undefined are the string Null where the field holds a string,  *)
(* the record NullUser for this.user, and the id 0 for a missing user id   *)
(* (each of them is false in a JavaScript condition, as the model needs).  *)
(***************************************************************************)
Null == "null"
Bridge == "window.Telegram.WebApp"
Hostnames == {"localhost", "127.0.0.1", "finance.example.com"}
Methods == {"showAlert", "showConfirm", "showPopup", "openLink"}
NullUser == [isNull |-> TRUE, id |-> 0, username |-> ""]
\* telegram.js:484-491
MockUser == [isNull |-> FALSE, id |-> 123456789, username |-> "testuser"]
\* telegram.js:494
MockInitData == "mock_init_data_for_development"
\* initDataUnsafe.user as the host may provide it: absent, without id, complete
BridgeUsers == {NullUser,
                [isNull |-> FALSE, id |-> 0, username |-> "alice"],
                [isNull |-> FALSE, id |-> 42, username |-> "alice"]}
BridgeInitData == {"", "query_id=AAE"}
NoSdk == [present |-> FALSE, methods |-> {}, user |-> NullUser, initData |-> ""]
Sdks == {NoSdk} \cup [present : {TRUE}, methods : SUBSET Methods,
                      user : BridgeUsers, initData : BridgeInitData]
NoCall == [method |-> "none", bridge |-> <<>>, browser |-> <<>>, threw |-> {}, callbacks |-> 0]

\* telegram.js:470-473
IsDevelopment(h) == h = "localhost" \/ h = "127.0.0.1"

\* a value used as a condition
Truthy(u) == ~u.isNull

\* Variant: initDevelopmentMode without the assignment of line 497.
DevelopmentModeStateNotReady == [user |-> MockUser, initData |-> MockInitData, isReady |-> FALSE]
\* telegram.js:478-502  the fields initDevelopmentMode assigns
DevelopmentModeState == [user |-> MockUser, initData |-> MockInitData, isReady |-> TRUE]

InitDevelopmentMode ==
    /\ user' = DevelopmentModeState.user
    /\ initData' = DevelopmentModeState.initData
    /\ isReady' = DevelopmentModeState.isReady

\* Variant: the bridge method is called without testing that it exists.
BridgeProvidesUnchecked(m) == tg = Bridge
\* this.tg?.showAlert and its like (telegram.js:295, 313, 331, 386)
BridgeProvides(m) == tg = Bridge /\ m \in sdk.methods

\* The browser function that stands in for a bridge method.
BrowserFallback(m) ==
    CASE m = "showAlert" -> "alert"
      [] m = "showConfirm" -> "confirm"
      [] m = "openLink" -> "window.open"

\* telegram.js:293-306, 311-324, 384-395: the bridge method when the bridge
\* provides it, the browser function otherwise and when the bridge method
\* throws (thr: the bridge methods that throw in this call; cb: a callback
\* was passed, which only showAlert and showConfirm call themselves).
Forward(m, thr, cb) ==
    LET called == IF cb /\ m # "openLink" THEN 1 ELSE 0
    IN  IF BridgeProvides(m)
        THEN IF m \in thr
             THEN [bridge |-> <<m>>, browser |-> <<BrowserFallback(m)>>,
                   threw |-> {m}, callbacks |-> called]
             ELSE [bridge |-> <<m>>, browser |-> <<>>, threw |-> {}, callbacks |-> 0]
        ELSE [bridge |-> <<>>, browser |-> <<BrowserFallback(m)>>,
              threw |-> {}, callbacks |-> called]

\* telegram.js:329-340: showPopup falls back to this.showAlert
ShowPopupLog(thr, cb) ==
    LET alertLog == Forward("showAlert", thr, cb)
    IN  IF BridgeProvides("showPopup")
        THEN IF "showPopup" \in thr
             THEN [bridge |-> <<"showPopup">> \o alertLog.bridge,
                   browser |-> alertLog.browser,
                   threw |-> {"showPopup"} \cup alertLog.threw,
                   callbacks |-> alertLog.callbacks]
             ELSE [bridge |-> <<"showPopup">>, browser |-> <<>>, threw |-> {}, callbacks |-> 0]
        ELSE alertLog

CallLog(m, thr, cb) ==
    LET log == IF m = "showPopup" THEN ShowPopupLog(thr, cb) ELSE Forward(m, thr, cb)
    IN  [method |-> m, bridge |-> log.bridge, browser |-> log.browser,
         threw |-> log.threw, callbacks |-> log.callbacks]

\* The constructor up to the call of init (telegram.js:7-12), in some host.
TgConstructed ==
    /\ hostname \in Hostnames
    /\ sdk \in Sdks
    /\ tg = Null
    /\ user = NullUser
    /\ initData = Null
    /\ isReady = FALSE
    /\ tgPc = "init"
    /\ lastCall = NoCall

\* No adapter is under observation.
TgIdle ==
    /\ hostname = "localhost"
    /\ sdk = NoSdk
    /\ tg = Null
    /\ user = NullUser
    /\ initData = Null
    /\ isReady = FALSE
    /\ tgPc = "off"
    /\ lastCall = NoCall

\* telegram.js:115-128  the catch block of init
InitCatch ==
    /\ IF IsDevelopment(hostname) THEN InitDevelopmentMode ELSE InitDevelopmentMode
    /\ tgPc' = "done"

\* telegram.js:24-43
InitCheckSdk ==
    /\ tgPc = "init"
    /\ IF ~sdk.present
       THEN /\ IF IsDevelopment(hostname) THEN InitDevelopmentMode ELSE InitDevelopmentMode
            /\ tgPc' = "done"
            /\ UNCHANGED tg
       ELSE /\ tg' = Bridge
            /\ tgPc' = "expand"
            /\ UNCHANGED <<user, initData, isReady>>
    /\ UNCHANGED <<hostname, sdk, lastCall>>
    /\ UNCHANGED <<retryVars, appVars, dbVars, restVars>>

\* telegram.js:51  this.tg.expand()
InitExpand(throws) ==
    /\ tgPc = "expand"
    /\ IF throws THEN InitCatch
       ELSE tgPc' = "enableClosingConfirmation" /\ UNCHANGED <<user, initData, isReady>>
    /\ UNCHANGED <<hostname, sdk, tg, lastCall>>
    /\ UNCHANGED <<retryVars, appVars, dbVars, restVars>>

\* telegram.js:55  this.tg.enableClosingConfirmation()
InitEnableClosingConfirmation(throws) ==
    /\ tgPc = "enableClosingConfirmation"
    /\ IF throws THEN InitCatch
       ELSE tgPc' = "userData" /\ UNCHANGED <<user, initData, isReady>>
    /\ UNCHANGED <<hostname, sdk, tg, lastCall>>
    /\ UNCHANGED <<retryVars, appVars, dbVars, restVars>>

\* telegram.js:62-91  read the user data; without a user id fall back to the
\* mock data, and alert outside development.
InitUserData(thr) ==
    /\ tgPc = "userData"
    /\ IF ~Truthy(sdk.user) \/ sdk.user.id = 0
       THEN /\ IF IsDevelopment(hostname)
               THEN InitDevelopmentMode /\ UNCHANGED lastCall
               ELSE InitDevelopmentMode /\ lastCall' = CallLog("showAlert", thr, FALSE)
            /\ tgPc' = "done"
       ELSE /\ user' = sdk.user
            /\ initData' = sdk.initData
            /\ tgPc' = "applyTheme"
            /\ UNCHANGED <<isReady, lastCall>>
    /\ UNCHANGED <<hostname, sdk, tg>>
    /\ UNCHANGED <<retryVars, appVars, dbVars, restVars>>

\* telegram.js:97-105  applyTheme, setupMainButton, setupBackButton: each
\* catches its own exceptions and changes no field of the adapter.
InitSetup ==
    /\ tgPc \in {"applyTheme", "setupMainButton", "setupBackButton"}
    /\ tgPc' = CASE tgPc = "applyTheme" -> "setupMainButton"
                 [] tgPc = "setupMainButton" -> "setupBackButton"
                 [] tgPc = "setupBackButton" -> "ready"
    /\ UNCHANGED <<hostname, sdk, tg, user, initData, isReady, lastCall>>
    /\ UNCHANGED <<retryVars, appVars, dbVars, restVars>>

\* telegram.js:109-110  this.isReady = true; this.tg.ready();
InitReady(throws) ==
    /\ tgPc = "ready"
    /\ IF throws THEN InitCatch
       ELSE isReady' = TRUE /\ tgPc' = "done" /\ UNCHANGED <<user, initData>>
    /\ UNCHANGED <<hostname, sdk, tg, lastCall>>
    /\ UNCHANGED <<retryVars, appVars, dbVars, restVars>>

\* showAlert, showConfirm, showPopup or openLink is called on the adapter.
AdapterCall(m, thr, cb) ==
    /\ tgPc = "done"
    /\ lastCall' = CallLog(m, thr, cb)
    /\ UNCHANGED <<hostname, sdk, tg, user, initData, isReady, tgPc>>
    /\ UNCHANGED <<retryVars, appVars, dbVars, restVars>>

\* telegram.js:432-442 (0 stands for null)
GetUserId == IF Truthy(user) /\ user.id # 0 THEN user.id ELSE 0

\* telegram.js:601-603
IsAppReady == isReady /\ Truthy(user) /\ user.id # 0

NextTelegram ==
    \/ InitCheckSdk
    \/ \E throws \in BOOLEAN : InitExpand(throws)
    \/ \E throws \in BOOLEAN : InitEnableClosingConfirmation(throws)
    \/ \E thr \in SUBSET {"showAlert"} : InitUserData(thr)
    \/ InitSetup
    \/ \E throws \in BOOLEAN : InitReady(throws)
    \/ \E m \in Methods : \E thr \in SUBSET {"showAlert", m}, cb \in BOOLEAN :
           AdapterCall(m, thr, cb)

(***************************************************************************)
(* The database: schema.sql (and the same tables in migration 001).        *)
(*                                                                         *)
(* A row carries the columns that a key, a foreign key, a CHECK or a       *)
(* UNIQUE constraint names.  Every statement affects one row, chosen by    *)
(* its primary key; a statement that violates a constraint is rolled back. *)
(* An INSERT may give the id explicitly (SERIAL is only a default).        *)
(* SqlNull stands for NULL in an integer column.                           *)
(***************************************************************************)
SqlNull == 0
UserIds == {1, 2}
CategoryIds == {1, 2}
TransactionIds == {1, 2}
TelegramIds == {1001, 1002}
DbCategoryNames == {"Produkty", "Prochee"}
DbTypes == Types \cup {"transfer"}          \* values a statement may try
DbAmounts == 0..MaxDbAmount                 \* values a statement may try

DbEmpty ==
    /\ dbUsers = {}
    /\ dbCategories = {}
    /\ dbTransactions = {}
    /\ dbLast = "none"

Ids(table) == {r.id : r \in table}

\* schema.sql:13 PRIMARY KEY, over the rows other than the one replaced
PrimaryKeyOk(row, others) == row.id \notin Ids(others)

\* schema.sql:14  telegram_user_id BIGINT UNIQUE NOT NULL
UserOk(row, others) ==
    /\ PrimaryKeyOk(row, others)
    /\ row.telegram_user_id # SqlNull
    /\ \A u \in others : u.telegram_user_id # row.telegram_user_id

\* schema.sql:30-33  name UNIQUE, CHECK (type IN ('income', 'expense'))
CategoryOk(row, others) ==
    /\ PrimaryKeyOk(row, others)
    /\ \A c \in others : c.name # row.name
    /\ row.type \in {"income", "expense"}

\* schema.sql:46, 49  user_id NOT NULL REFERENCES users(id),
\*                    category_id REFERENCES categories(id)
ForeignKeysOk(row) ==
    /\ row.user_id # SqlNull
    /\ row.user_id \in Ids(dbUsers)
    /\ row.category_id # SqlNull => row.category_id \in Ids(dbCategories)

\* Variant: CHECK (amount >= 0).
ChecksOkZeroAmount(row) ==
    /\ row.type \in {"income", "expense"}
    /\ row.amount >= 0
\* schema.sql:47-48  CHECK (type IN ('income', 'expense')), CHECK (amount > 0)
ChecksOk(row) ==
    /\ row.type \in {"income", "expense"}
    /\ row.amount > 0

TransactionOk(row, others) ==
    /\ PrimaryKeyOk(row, others)
    /\ ForeignKeysOk(row)
    /\ ChecksOk(row)

\* A statement commits, or is rolled back.
Accept(outcome) == dbLast' = outcome
Reject == dbLast' = "rejected" /\ UNCHANGED dbTables

\* INSERT INTO users
InsertUser(id, tgid) ==
    /\ LET row == [id |-> id, telegram_user_id |-> tgid]
       IN  IF UserOk(row, dbUsers)
           THEN /\ dbUsers' = dbUsers \cup {row}
                /\ UNCHANGED <<dbCategories, dbTransactions>>
                /\ Accept("accepted")
           ELSE Reject
    /\ UNCHANGED <<retryVars, appVars, tgVars, restVars>>

\* UPDATE users SET id = newId, telegram_user_id = tgid WHERE id = id.
\* schema.sql:46 has no ON UPDATE clause: a referenced id cannot change.
UpdateUser(id, newId, tgid) ==
    /\ LET old == {u \in dbUsers : u.id = id}
           row == [id |-> newId, telegram_user_id |-> tgid]
       IN  IF old = {}
           THEN UNCHANGED dbTables /\ Accept("accepted")
           ELSE IF /\ UserOk(row, dbUsers \ old)
                   /\ (newId # id => \A t \in dbTransactions : t.user_id # id)
                THEN /\ dbUsers' = (dbUsers \ old) \cup {row}
                     /\ UNCHANGED <<dbCategories, dbTransactions>>
                     /\ Accept("accepted")
                ELSE Reject
    /\ UNCHANGED <<retryVars, appVars, tgVars, restVars>>

\* schema.sql:46  ON DELETE CASCADE
Cascade(id) == {t \in dbTransactions : t.user_id # id}

\* DELETE FROM users WHERE id = id
DeleteUser(id) ==
    /\ dbUsers' = {u \in dbUsers : u.id # id}
    /\ dbTransactions' = Cascade(id)
    /\ UNCHANGED dbCategories
    /\ Accept("DeleteUser")
    /\ UNCHANGED <<retryVars, appVars, tgVars, restVars>>

\* INSERT INTO categories
InsertCategory(id, name, type) ==
    /\ LET row == [id |-> id, name |-> name, type |-> type]
       IN  IF CategoryOk(row, dbCategories)
           THEN /\ dbCategories' = dbCategories \cup {row}
                /\ UNCHANGED <<dbUsers, dbTransactions>>
                /\ Accept("accepted")
           ELSE Reject
    /\ UNCHANGED <<retryVars, appVars, tgVars, restVars>>

\* UPDATE categories SET id, name, type WHERE id = id
UpdateCategory(id, newId, name, type) ==
    /\ LET old == {c \in dbCategories : c.id = id}
           row == [id |-> newId, name |-> name, type |-> type]
       IN  IF old = {}
           THEN UNCHANGED dbTables /\ Accept("accepted")
           ELSE IF /\ CategoryOk(row, dbCategories \ old)
                   /\ (newId # id => \A t \in dbTransactions : t.category_id # id)
                THEN /\ dbCategories' = (dbCategories \ old) \cup {row}
                     /\ UNCHANGED <<dbUsers, dbTransactions>>
                     /\ Accept("accepted")
                ELSE Reject
    /\ UNCHANGED <<retryVars, appVars, tgVars, restVars>>

\* Variant: ON DELETE CASCADE on category_id.
SetNullDeletes(id) == {t \in dbTransactions : t.category_id # id}
\* schema.sql:49  ON DELETE SET NULL
SetNull(id) ==
    {IF t.category_id = id THEN [t EXCEPT !.category_id = SqlNull] ELSE t : t \in dbTransactions}

\* DELETE FROM categories WHERE id = id
DeleteCategory(id) ==
    /\ dbCategories' = {c \in dbCategories : c.id # id}
    /\ dbTransactions' = SetNull(id)
    /\ UNCHANGED dbUsers
    /\ Accept("DeleteCategory")
    /\ UNCHANGED <<retryVars, appVars, tgVars, restVars>>

\* INSERT INTO transactions
InsertTransaction(id, user_id, type, amount, category_id) ==
    /\ LET row == [id |-> id, user_id |-> user_id, type |-> type, amount |-> amount,
                   category_id |-> category_id]
       IN  IF TransactionOk(row, dbTransactions)
           THEN /\ dbTransactions' = dbTransactions \cup {row}
                /\ UNCHANGED <<dbUsers, dbCategories>>
                /\ Accept("accepted")
           ELSE Reject
    /\ UNCHANGED <<retryVars, appVars, tgVars, restVars>>

\* UPDATE transactions SET user_id, type, amount, category_id WHERE id = id
UpdateTransaction(id, user_id, type, amount, category_id) ==
    /\ LET old == {t \in dbTransactions : t.id = id}
           row == [id |-> id, user_id |-> user_id, type |-> type, amount |-> amount,
                   category_id |-> category_id]
       IN  IF old = {}
           THEN UNCHANGED dbTables /\ Accept("accepted")
           ELSE IF TransactionOk(row, dbTransactions \ old)
                THEN /\ dbTransactions' = (dbTransactions \ old) \cup {row}
                     /\ UNCHANGED <<dbUsers, dbCategories>>
                     /\ Accept("accepted")
                ELSE Reject
    /\ UNCHANGED <<retryVars, appVars, tgVars, restVars>>

\* DELETE FROM transactions WHERE id = id
DeleteTransaction(id) ==
    /\ dbTransactions' = {t \in dbTransactions : t.id # id}
    /\ UNCHANGED <<dbUsers, dbCategories>>
    /\ Accept("accepted")
    /\ UNCHANGED <<retryVars, appVars, tgVars, restVars>>

NextDb ==
    \/ \E id \in UserIds, tgid \in TelegramIds \cup {SqlNull} : InsertUser(id, tgid)
    \/ \E id \in UserIds, newId \in UserIds, tgid \in TelegramIds \cup {SqlNull} :
           UpdateUser(id, newId, tgid)
    \/ \E id \in UserIds : DeleteUser(id)
    \/ \E id \in CategoryIds, name \in DbCategoryNames, type \in DbTypes :
           InsertCategory(id, name, type)
    \/ \E id \in CategoryIds, newId \in CategoryIds, name \in DbCategoryNames, type \in DbTypes :
           UpdateCategory(id, newId, name, type)
    \/ \E id \in CategoryIds : DeleteCategory(id)
    \/ \E id \in TransactionIds, u \in UserIds \cup {SqlNull}, type \in DbTypes,
          amount \in DbAmounts, c \in CategoryIds \cup {SqlNull} :
           InsertTransaction(id, u, type, amount, c)
    \/ \E id \in TransactionIds, u \in UserIds, type \in DbTypes,
          amount \in DbAmounts, c \in CategoryIds \cup {SqlNull} :
           UpdateTransaction(id, u, type, amount, c)
    \/ \E id \in TransactionIds : DeleteTransaction(id)

(***************************************************************************)
(* The timestamp columns: created_at and updated_at of users and           *)
(* transactions default to NOW() (schema.sql:18-19, 52-53), and a BEFORE   *)
(* UPDATE row trigger on each of the two tables assigns NOW() to           *)
(* updated_at (schema.sql:72-84).  categories has neither the columns nor  *)
(* a trigger (schema.sql:29-35).                                           *)
(*                                                                         *)
(* A row carries its key, its timestamps and, for transactions, the        *)
(* category_id that ON DELETE SET NULL updates.  Every statement is its    *)
(* own transaction, so NOW() is the time of the statement.  Unset stands   *)
(* for a column the statement does not mention.                            *)
(***************************************************************************)
Unset == -1
Times == 0..MaxTime
TsIds == {1}
TsCategoryIds == {1}

TsIdle ==
    /\ now = 0
    /\ tsUsers = {}
    /\ tsCategories = {}
    /\ tsTransactions = {}
    /\ tsLast = "none"

\* DEFAULT NOW() of schema.sql:18-19, 52-53
DefaultNow(supplied) == IF supplied = Unset THEN now ELSE supplied

\* SET column = supplied, or the column left alone
SetOrKeep(old, supplied) == IF supplied = Unset THEN old ELSE supplied

\* Variant: the trigger is missing.
NoTrigger(new) == new
\* schema.sql:72-78  update_updated_at_column()
UpdateUpdatedAtColumn(new) == [new EXCEPT !.updated_at = now]

\* Time passes.
Tick ==
    /\ now < MaxTime
    /\ now' = now + 1
    /\ UNCHANGED <<tsUsers, tsCategories, tsTransactions>>
    /\ UNCHANGED tsLast
    /\ UNCHANGED othersTs

\* INSERT INTO users (id [, created_at] [, updated_at])
TsInsertUser(id, created, updated) ==
    /\ id \notin Ids(tsUsers)
    /\ tsUsers' = tsUsers \cup {[id |-> id, created_at |-> DefaultNow(created),
                                 updated_at |-> DefaultNow(updated)]}
    /\ UNCHANGED <<now, tsCategories, tsTransactions>>
    /\ tsLast' = "insert"
    /\ UNCHANGED othersTs

\* UPDATE users SET [created_at = ..] [, updated_at = ..] WHERE id = id,
\* with the trigger update_users_updated_at (schema.sql:80-81)
TsUpdateUser(id, created, updated) ==
    /\ id \in Ids(tsUsers)
    /\ tsUsers' = {IF u.id = id
                   THEN UpdateUpdatedAtColumn([id |-> id,
                            created_at |-> SetOrKeep(u.created_at, created),
                            updated_at |-> SetOrKeep(u.updated_at, updated)])
                   ELSE u : u \in tsUsers}
    /\ UNCHANGED <<now, tsCategories, tsTransactions>>
    /\ tsLast' = "update"
    /\ UNCHANGED othersTs

\* DELETE FROM users WHERE id = id
TsDeleteUser(id) ==
    /\ id \in Ids(tsUsers)
    /\ tsUsers' = {u \in tsUsers : u.id # id}
    /\ UNCHANGED <<now, tsCategories, tsTransactions>>
    /\ tsLast' = "delete"
    /\ UNCHANGED othersTs

\* INSERT INTO categories
TsInsertCategory(id) ==
    /\ id \notin Ids(tsCategories)
    /\ tsCategories' = tsCategories \cup {[id |-> id, is_active |-> TRUE]}
    /\ UNCHANGED <<now, tsUsers, tsTransactions>>
    /\ tsLast' = "insert"
    /\ UNCHANGED othersTs

\* UPDATE categories SET is_active = active WHERE id = id (no trigger)
TsUpdateCategory(id, active) ==
    /\ id \in Ids(tsCategories)
    /\ tsCategories' = {IF c.id = id THEN [c EXCEPT !.is_active = active] ELSE c :
                           c \in tsCategories}
    /\ UNCHANGED <<now, tsUsers, tsTransactions>>
    /\ tsLast' = "update"
    /\ UNCHANGED othersTs

\* DELETE FROM categories WHERE id = id: ON DELETE SET NULL (schema.sql:49)
\* updates the referencing rows of transactions, and the row trigger of
\* schema.sql:83-84 fires for each of them.
TsDeleteCategory(id) ==
    /\ id \in Ids(tsCategories)
    /\ tsCategories' = {c \in tsCategories : c.id # id}
    /\ tsTransactions' = {IF t.category_id = id
                          THEN UpdateUpdatedAtColumn([t EXCEPT !.category_id = SqlNull])
                          ELSE t : t \in tsTransactions}
    /\ UNCHANGED <<now, tsUsers>>
    /\ tsLast' = "delete"
    /\ UNCHANGED othersTs

\* INSERT INTO transactions (id, category_id [, created_at] [, updated_at])
TsInsertTransaction(id, c, created, updated) ==
    /\ id \notin Ids(tsTransactions)
    /\ c # SqlNull => c \in Ids(tsCategories)
    /\ tsTransactions' = tsTransactions \cup
           {[id |-> id, category_id |-> c, created_at |-> DefaultNow(created),
             updated_at |-> DefaultNow(updated)]}
    /\ UNCHANGED <<now, tsUsers, tsCategories>>
    /\ tsLast' = "insert"
    /\ UNCHANGED othersTs

\* UPDATE transactions SET category_id = c [, created_at = ..]
\* [, updated_at = ..] WHERE id = id, with the trigger
\* update_transactions_updated_at (schema.sql:83-84)
TsUpdateTransaction(id, c, created, updated) ==
    /\ id \in Ids(tsTransactions)
    /\ c # SqlNull => c \in Ids(tsCategories)
    /\ tsTransactions' = {IF t.id = id
                          THEN UpdateUpdatedAtColumn([id |-> id, category_id |-> c,
                                   created_at |-> SetOrKeep(t.created_at, created),
                                   updated_at |-> SetOrKeep(t.updated_at, updated)])
                          ELSE t : t \in tsTransactions}
    /\ UNCHANGED <<now, tsUsers, tsCategories>>
    /\ tsLast' = "update"
    /\ UNCHANGED othersTs

\* DELETE FROM transactions WHERE id = id
TsDeleteTransaction(id) ==
    /\ id \in Ids(tsTransactions)
    /\ tsTransactions' = {t \in tsTransactions : t.id # id}
    /\ UNCHANGED <<now, tsUsers, tsCategories>>
    /\ tsLast' = "delete"
    /\ UNCHANGED othersTs

NextTimestamps ==
    \/ Tick
    \/ \E id \in TsIds, c, u \in Times \cup {Unset} : TsInsertUser(id, c, u)
    \/ \E id \in TsIds, c, u \in Times \cup {Unset} : TsUpdateUser(id, c, u)
    \/ \E id \in TsIds : TsDeleteUser(id)
    \/ \E id \in TsCategoryIds : TsInsertCategory(id)
    \/ \E id \in TsCategoryIds, a \in BOOLEAN : TsUpdateCategory(id, a)
    \/ \E id \in TsCategoryIds : TsDeleteCategory(id)
    \/ \E id \in TsIds, cat \in TsCategoryIds \cup {SqlNull}, c, u \in Times \cup {Unset} :
           TsInsertTransaction(id, cat, c, u)
    \/ \E id \in TsIds, cat \in TsCategoryIds \cup {SqlNull}, c, u \in Times \cup {Unset} :
           TsUpdateTransaction(id, cat, c, u)
    \/ \E id \in TsIds : TsDeleteTransaction(id)

(***************************************************************************)
(* Migration 002 (migrations/002_seed_categories.sql): two statements      *)
(* INSERT ... ON CONFLICT (name) DO NOTHING into categories, the first of  *)
(* 15 expense rows and the second of 5 income rows.  A row is its id, its  *)
(* name and its type; names are transliterated.  id is SERIAL: every row   *)
(* proposed for insertion takes the next value of the sequence, inserted   *)
(* or not.                                                                 *)
(***************************************************************************)
\* 002_seed_categories.sql:6-20
ExpenseSeed ==
    <<"Produkty", "Restorany i kafe", "Transport", "Toplivo", "Zhilye",
      "Pokupki", "Zdorovye i apteka", "Obrazovanie", "Razvlecheniya",
      "Svyaz i internet", "Sport i fitnes", "Puteshestviya", "Podarki",
      "Krasota i ukhod", "Prochee">>

\* 002_seed_categories.sql:25-29
IncomeSeed ==
    <<"Zarplata", "Frilans/Podrabotka", "Podarki/Vozvraty", "Investicii",
      "Drugie dohody">>

Range(seq) == {seq[k] : k \in 1..Len(seq)}
Names(table) == {r.name : r \in table}

\* the names other statements insert and delete
ManualNames == {"Produkty", "Zarplata", "Kredit"}

SeedIdle ==
    /\ seedCategories = {}
    /\ seedSeq = 1
    /\ seedRuns = 0
    /\ seedManual = 0
    /\ seedLast = "none"

\* One statement INSERT INTO categories (name, icon, type) VALUES ... in the
\* state st = [table, seq, failed], its rows taken from position k on.
\* Variant: the statement without its ON CONFLICT clause fails on a name that
\* is present.
RECURSIVE InsertPlain(_, _, _, _)
InsertPlain(st, names, type, k) ==
    IF k > Len(names) \/ st.failed THEN st
    ELSE IF names[k] \in Names(st.table)
         THEN [st EXCEPT !.seq = @ + 1, !.failed = TRUE]
         ELSE InsertPlain([st EXCEPT !.table = @ \cup {[id |-> st.seq, name |-> names[k],
                                                       type |-> type]},
                                     !.seq = @ + 1],
                          names, type, k + 1)
\* 002_seed_categories.sql:5-21, 24-30  ON CONFLICT (name) DO NOTHING
RECURSIVE InsertOnConflictDoNothing(_, _, _, _)
InsertOnConflictDoNothing(st, names, type, k) ==
    IF k > Len(names) \/ st.failed THEN st
    ELSE IF names[k] \in Names(st.table)
         THEN InsertOnConflictDoNothing([st EXCEPT !.seq = @ + 1], names, type, k + 1)
         ELSE InsertOnConflictDoNothing(
                  [st EXCEPT !.table = @ \cup {[id |-> st.seq, name |-> names[k],
                                                type |-> type]},
                             !.seq = @ + 1],
                  names, type, k + 1)

\* The two statements of the file, one after the other; a statement that
\* fails ends the migration and leaves the table as it was before it.
Migrate(table, seq) ==
    LET st0 == [table |-> table, seq |-> seq, failed |-> FALSE]
        st1 == InsertOnConflictDoNothing(st0, ExpenseSeed, "expense", 1)
        st2 == InsertOnConflictDoNothing(st1, IncomeSeed, "income", 1)
    IN  IF st1.failed THEN [st1 EXCEPT !.table = table]
        ELSE IF st2.failed THEN [st2 EXCEPT !.table = st1.table]
        ELSE st2

\* Migration 002 is applied.
ApplyMigration ==
    /\ seedRuns < MaxApplications
    /\ LET st == Migrate(seedCategories, seedSeq)
       IN  /\ seedCategories' = st.table
           /\ seedSeq' = st.seq
           /\ seedLast' = IF st.failed THEN "failed" ELSE "migrated"
    /\ seedRuns' = seedRuns + 1
    /\ UNCHANGED seedManual
    /\ UNCHANGED othersSeed

\* Another statement INSERT INTO categories (name, icon, type) VALUES (..):
\* name is UNIQUE (schema.sql:31).
SeedInsertCategory(name, type) ==
    /\ seedManual < MaxManual
    /\ IF name \in Names(seedCategories)
       THEN /\ seedLast' = "failed"
            /\ UNCHANGED seedCategories
       ELSE /\ seedLast' = "inserted"
            /\ seedCategories' = seedCategories \cup
                   {[id |-> seedSeq, name |-> name, type |-> type]}
    /\ seedSeq' = seedSeq + 1
    /\ seedManual' = seedManual + 1
    /\ UNCHANGED seedRuns
    /\ UNCHANGED othersSeed

\* DELETE FROM categories WHERE name = name
SeedDeleteCategory(name) ==
    /\ name \in Names(seedCategories)
    /\ seedCategories' = {r \in seedCategories : r.name # name}
    /\ seedLast' = "deleted"
    /\ UNCHANGED <<seedSeq, seedRuns, seedManual>>
    /\ UNCHANGED othersSeed

NextSeed ==
    \/ ApplyMigration
    \/ \E name \in ManualNames, type \in DbTypes : SeedInsertCategory(name, type)
    \/ \E name \in ManualNames : SeedDeleteCategory(name)

(***************************************************************************)
(* API.validateTransaction (app.js:1669-1696).  A JavaScript value is a    *)
(* record of its kind (undefined, number, nan, string) and its content.    *)
(* The messages are named by their rule.                                   *)
(***************************************************************************)
Undef == [kind |-> "undefined", num |-> 0, str |-> ""]
NaN == [kind |-> "nan", num |-> 0, str |-> ""]
Num(n) == [kind |-> "number", num |-> n, str |-> ""]
Str(s) == [kind |-> "string", num |-> 0, str |-> s]

\* !v is false
JsTruthy(v) ==
    CASE v.kind = "undefined" -> FALSE
      [] v.kind = "nan" -> FALSE
      [] v.kind = "number" -> v.num # 0
      [] v.kind = "string" -> v.str # ""

\* v <= 0 for a number, NaN or undefined (the last two compare false)
AtMostZero(v) == v.kind = "number" /\ v.num <= 0

TypeError == "Nevernyi tip tranzakcii"
AmountError == "Summa dolzhna byt bolshe nulya"
CategoryError == "Vyberite kategoriyu"
DateError == "Ukazhite datu"

\* Variant: the amount rule without its comparison.
AmountRejectedUnsigned(data) == ~JsTruthy(data.amount)
\* app.js:1678  !data.amount || data.amount <= 0
AmountRejected(data) == ~JsTruthy(data.amount) \/ AtMostZero(data.amount)

\* app.js:1669-1696
validateTransaction(data) ==
    LET e0 == <<>>
        e1 == IF ~JsTruthy(data.type) \/ data.type \notin {Str("income"), Str("expense")}
              THEN Append(e0, TypeError) ELSE e0
        e2 == IF AmountRejected(data) THEN Append(e1, AmountError) ELSE e1
        e3 == IF ~JsTruthy(data.category_id) THEN Append(e2, CategoryError) ELSE e2
        e4 == IF ~JsTruthy(data.date) THEN Append(e3, DateError) ELSE e3
    IN  [valid |-> Len(e4) = 0, errors |-> e4]

\* The data the callers build: type and date are strings of the form or
\* missing, amount is a parseFloat and category_id a parseInt, or missing.
FormTypes == {Str("income"), Str("expense"), Str("transfer"), Str(""), Undef}
FormAmounts == {Num(n) : n \in -1..MaxFormAmount} \cup {NaN, Undef}
FormCategoryIds == {Num(0), Num(1), NaN, Undef}
FormDates == {Str("2025-01-15"), Str(""), Undef}
FormData == [type : FormTypes, amount : FormAmounts, category_id : FormCategoryIds,
             date : FormDates]

NoResult == [valid |-> FALSE, errors |-> <<>>]

ValidateIdle ==
    /\ vData = [type |-> Undef, amount |-> Undef, category_id |-> Undef, date |-> Undef]
    /\ vResult = NoResult

\* validateTransaction(vData) is called.
Validate ==
    /\ vResult = NoResult
    /\ vResult' = validateTransaction(vData)
    /\ UNCHANGED vData
    /\ UNCHANGED othersValidate

NextValidate == Validate

(***************************************************************************)
(* The transaction modal: openAddModal, editTransaction, closeModal,       *)
(* saveTransaction and deleteTransaction (app.js:817-1087).  A handler runs *)
(* from one await to the next in one step.  A field of the form that is    *)
(* parsed is a sequence of characters; the others are strings.  One        *)
(* invocation of a handler runs at a time.  An alert is dismissed before   *)
(* the user does anything else, and handlerLog is what the handler has     *)
(* done since the user last acted.                                         *)
(***************************************************************************)
Digit == <<"0", "1", "2", "3", "4", "5", "6", "7", "8", "9">>
IsDigit(c) == \E k \in 1..10 : Digit[k] = c
DigitValue(c) == (CHOOSE k \in 1..10 : Digit[k] = c) - 1

\* the value of the longest prefix of digits of s from position k on, given
\* the value acc of the digits before k
RECURSIVE ParseDigits(_, _, _)
ParseDigits(s, k, acc) ==
    IF k > Len(s) \/ ~IsDigit(s[k]) THEN acc
    ELSE ParseDigits(s, k + 1, 10 * acc + DigitValue(s[k]))

\* parseFloat and parseInt (app.js:1004-1005) of a string without a decimal
\* point: an optional sign, then the longest prefix of digits, NaN without
\* one.
ParseNumber(s) ==
    LET neg == Len(s) > 0 /\ s[1] = "-"
        first == IF neg THEN 2 ELSE 1
    IN  IF first > Len(s) \/ ~IsDigit(s[first]) THEN NaN
        ELSE Num((IF neg THEN -1 ELSE 1) * ParseDigits(s, first, 0))

ExistingId == "7"
NoId == ""
Today == "2025-01-15"

InputTypes == {"", "expense"}
InputAmounts == {<<"0">>, <<"-", "1">>, <<"1", "2", "a">>, <<"a">>}
InputCategoryIds == {<<>>, <<"3">>}
InputDates == {"", Today}

Sections == {"dashboard", "transactions", "stats"}
Lists == {"list1", "list2"}     \* what a load may put into this.transactions
NoRequest == [method |-> "none", id |-> NoId, data |-> Undef]
NoAlert == <<>>

ConfirmText == "Udalit tranzakciyu?"
Updated == "Tranzakciya obnovlena"
Created == "Tranzakciya sozdana"
Deleted == "Tranzakciya udalena"
DeleteFailed == "Oshibka pri udalenii tranzakcii"
ServerErrors == {"e1", ""}      \* error.message of a rejected request
SaveFailedText == "Oshibka pri sohranenii tranzakcii"

ModalIdle ==
    /\ form = [type |-> "", amount |-> <<>>, categoryId |-> <<>>, date |-> Today,
               transactionId |-> NoId]
    /\ handlerPc = "idle"
    /\ transactionId = NoId
    /\ inFlight = NoRequest
    /\ handlerLog = <<>>
    /\ modalActive = FALSE
    /\ modalClosing = FALSE
    /\ currentTransaction = Null
    /\ currentSection = "dashboard"
    /\ loaded = "list1"
    /\ alertShown = NoAlert

\* app.js:817-843
openAddModal ==
    /\ currentTransaction' = Null
    /\ form' = [type |-> "expense", amount |-> <<>>, categoryId |-> <<>>,
                date |-> Today, transactionId |-> NoId]
    /\ modalActive' = TRUE
    /\ UNCHANGED <<handlerPc, transactionId, inFlight, modalClosing,
                   currentSection, loaded>>
    /\ handlerLog' = IF handlerPc = "idle" THEN <<>> ELSE handlerLog
    /\ alertShown' = NoAlert
    /\ UNCHANGED othersModal

\* app.js:848-890, for a transaction that is loaded
editTransaction ==
    /\ currentTransaction' = ExistingId
    /\ form' = [type |-> "income", amount |-> <<"1">>, categoryId |-> <<"3">>,
                date |-> Today, transactionId |-> ExistingId]
    /\ modalActive' = TRUE
    /\ UNCHANGED <<handlerPc, transactionId, inFlight, modalClosing,
                   currentSection, loaded>>
    /\ handlerLog' = IF handlerPc = "idle" THEN <<>> ELSE handlerLog
    /\ alertShown' = NoAlert
    /\ UNCHANGED othersModal

\* The user changes the visible fields of the form (a type button is
\* selectType of app.js:927-947, a category is selectCategory of 971-988).
TypeForm(type, amount, categoryId, date) ==
    /\ modalActive
    /\ handlerPc = "idle"
    /\ form' = [form EXCEPT !.type = type, !.amount = amount,
                            !.categoryId = categoryId, !.date = date]
    /\ UNCHANGED <<handlerPc, transactionId, inFlight, modalActive,
                   modalClosing, currentTransaction, currentSection, loaded>>
    /\ handlerLog' = IF handlerPc = "idle" THEN <<>> ELSE handlerLog
    /\ alertShown' = NoAlert
    /\ UNCHANGED othersModal

\* app.js:906-922, called by the close button
UserClosesModal ==
    /\ modalActive
    /\ modalClosing' = TRUE
    /\ currentTransaction' = Null
    /\ UNCHANGED <<form, handlerPc, transactionId, inFlight, modalActive,
                   currentSection, loaded>>
    /\ handlerLog' = IF handlerPc = "idle" THEN <<>> ELSE handlerLog
    /\ alertShown' = NoAlert
    /\ UNCHANGED othersModal

\* app.js:915-918  the timer of closeModal
CloseTimerFires ==
    /\ modalClosing
    /\ modalActive' = FALSE
    /\ modalClosing' = FALSE
    /\ UNCHANGED <<form, handlerPc, transactionId, inFlight, handlerLog,
                   currentTransaction, currentSection, loaded, alertShown>>
    /\ UNCHANGED othersModal

\* app.js:85-122 switchSection, as far as this.currentSection
ModalSwitchSection(s) ==
    /\ handlerPc = "idle"
    /\ s # currentSection
    /\ currentSection' = s
    /\ UNCHANGED <<form, handlerPc, transactionId, inFlight, modalActive,
                   modalClosing, currentTransaction, loaded>>
    /\ handlerLog' = IF handlerPc = "idle" THEN <<>> ELSE handlerLog
    /\ alertShown' = NoAlert
    /\ UNCHANGED othersModal

\* app.js:1002-1008
FormDataOf(f) ==
    [type |-> Str(f.type), amount |-> ParseNumber(f.amount),
     category_id |-> ParseNumber(f.categoryId), date |-> Str(f.date)]

\* Variant: saveTransaction without the return of line 1014.
RejectsNothing(validation) == FALSE
\* app.js:1012  !validation.valid
Rejects(validation) == ~validation.valid

\* Variant: every save is a create.
SaveMethodCreate(id) == "POST"
\* app.js:1020-1026  updateTransaction is a PUT (1461-1463), createTransaction
\* a POST (1454-1456)
SaveMethod(id) == IF id # "" THEN "PUT" ELSE "POST"

\* app.js:993-1026  saveTransaction up to its first await
saveTransaction ==
    /\ handlerPc = "idle"
    /\ modalActive
    /\ LET formData == FormDataOf(form)
           validation == validateTransaction(formData)
       IN  IF Rejects(validation)
           THEN /\ alertShown' = validation.errors
                /\ handlerLog' = <<"showError">>
                /\ UNCHANGED <<handlerPc, transactionId, inFlight>>
           ELSE /\ transactionId' = form.transactionId
                /\ inFlight' = [method |-> SaveMethod(form.transactionId),
                                id |-> form.transactionId, data |-> formData]
                /\ handlerLog' = <<SaveMethod(form.transactionId)>>
                /\ handlerPc' = "saving"
                /\ UNCHANGED alertShown
    /\ UNCHANGED <<form, modalActive, modalClosing, currentTransaction, currentSection,
                   loaded>>
    /\ UNCHANGED othersModal

\* app.js:127-146  refreshCurrentSection: loadSectionData(this.currentSection)
RefreshRequest == [method |-> "GET", id |-> currentSection, data |-> Undef]

\* app.js:1021-1032  the request resolves: showSuccess, closeModal,
\* refreshCurrentSection up to its await
SaveResolves ==
    /\ handlerPc = "saving"
    /\ alertShown' = <<IF inFlight.method = "PUT" THEN Updated ELSE Created>>
    /\ modalClosing' = TRUE
    /\ currentTransaction' = Null
    /\ inFlight' = RefreshRequest
    /\ handlerLog' = handlerLog \o <<"showSuccess", "closeModal", "GET">>
    /\ handlerPc' = "refreshing"
    /\ UNCHANGED <<form, transactionId, modalActive, currentSection, loaded>>
    /\ UNCHANGED othersModal

\* app.js:1038-1040  the request rejects
SaveRejects(message) ==
    /\ handlerPc = "saving"
    /\ alertShown' = <<IF message # "" THEN message ELSE SaveFailedText>>
    /\ inFlight' = NoRequest
    /\ handlerLog' = Append(handlerLog, "showError")
    /\ handlerPc' = "idle"
    /\ UNCHANGED <<form, transactionId, modalActive, modalClosing, currentTransaction,
                   currentSection, loaded>>
    /\ UNCHANGED othersModal

\* Variant: deleteTransaction without the return of line 1054.
MissingNever(id) == FALSE
\* app.js:1054  !transactionId
Missing(id) == id = ""

\* app.js:1051-1057  deleteTransaction up to showConfirm
deleteTransaction ==
    /\ handlerPc = "idle"
    /\ modalActive
    /\ IF Missing(form.transactionId)
       THEN /\ handlerLog' = <<>>
            /\ UNCHANGED <<handlerPc, transactionId>>
       ELSE /\ transactionId' = form.transactionId
            /\ handlerLog' = <<ConfirmText>>
            /\ handlerPc' = "confirming"
    /\ UNCHANGED <<form, inFlight, modalActive, modalClosing, currentTransaction,
                   currentSection, loaded, alertShown>>
    /\ UNCHANGED othersModal

\* app.js:1057-1065, 1191-1199  the user answers the question
ConfirmAnswered(confirmed) ==
    /\ handlerPc = "confirming"
    /\ IF ~confirmed
       THEN /\ handlerLog' = Append(handlerLog, "declined")
            /\ handlerPc' = "idle"
            /\ UNCHANGED inFlight
       ELSE /\ inFlight' = [method |-> "DELETE", id |-> transactionId, data |-> Undef]
            /\ handlerLog' = handlerLog \o <<"confirmed", "DELETE">>
            /\ handlerPc' = "deleting"
    /\ UNCHANGED <<form, transactionId, modalActive, modalClosing, currentTransaction,
                   currentSection, loaded, alertShown>>
    /\ UNCHANGED othersModal

\* app.js:1065-1073  the DELETE resolves
DeleteResolves ==
    /\ handlerPc = "deleting"
    /\ alertShown' = <<Deleted>>
    /\ modalClosing' = TRUE
    /\ currentTransaction' = Null
    /\ inFlight' = RefreshRequest
    /\ handlerLog' = handlerLog \o <<"showSuccess", "closeModal", "GET">>
    /\ handlerPc' = "refreshing"
    /\ UNCHANGED <<form, transactionId, modalActive, currentSection, loaded>>
    /\ UNCHANGED othersModal

\* app.js:1079-1081  the DELETE rejects
DeleteRejects ==
    /\ handlerPc = "deleting"
    /\ alertShown' = <<DeleteFailed>>
    /\ inFlight' = NoRequest
    /\ handlerLog' = Append(handlerLog, "showError")
    /\ handlerPc' = "idle"
    /\ UNCHANGED <<form, transactionId, modalActive, modalClosing, currentTransaction,
                   currentSection, loaded>>
    /\ UNCHANGED othersModal

\* app.js:247-321  the reload resolves: loadDashboard and loadAllTransactions
\* store the response, loadStatistics does not touch this.transactions
RefreshResolves(list) ==
    /\ handlerPc = "refreshing"
    /\ loaded' = IF inFlight.id \in {"dashboard", "transactions"} THEN list ELSE loaded
    /\ inFlight' = NoRequest
    /\ handlerLog' = Append(handlerLog, "loaded")
    /\ handlerPc' = "idle"
    /\ UNCHANGED <<form, transactionId, modalActive, modalClosing, currentTransaction,
                   currentSection, alertShown>>
    /\ UNCHANGED othersModal

\* app.js:276-280, 316-320  the reload rejects and the loader catches it
RefreshRejects ==
    /\ handlerPc = "refreshing"
    /\ inFlight' = NoRequest
    /\ handlerLog' = Append(handlerLog, "load failed")
    /\ handlerPc' = "idle"
    /\ UNCHANGED <<form, transactionId, modalActive, modalClosing, currentTransaction,
                   currentSection, loaded, alertShown>>
    /\ UNCHANGED othersModal

NextModal ==
    \/ openAddModal
    \/ editTransaction
    \/ \E type \in InputTypes, amount \in InputAmounts, categoryId \in InputCategoryIds,
          date \in InputDates : TypeForm(type, amount, categoryId, date)
    \/ UserClosesModal
    \/ CloseTimerFires
    \/ \E s \in Sections : ModalSwitchSection(s)
    \/ saveTransaction
    \/ SaveResolves
    \/ \E message \in ServerErrors : SaveRejects(message)
    \/ deleteTransaction
    \/ \E confirmed \in BOOLEAN : ConfirmAnswered(confirmed)
    \/ DeleteResolves
    \/ DeleteRejects
    \/ \E list \in Lists : RefreshResolves(list)
    \/ RefreshRejects

(***************************************************************************)
(* API.request and API.handleError (app.js:1334-1391).  A Response is its  *)
(* ok flag, status, statusText and body; a body is not JSON, the JSON      *)
(* value null, or a JSON object with or without the fields message and     *)
(* error.  The outcome of the call is pending, resolved with data, or      *)
(* rejected with an error that has a message and perhaps a status.         *)
(***************************************************************************)
DefaultMessage == "Proizoshla oshibka pri vypolnenii zaprosa"
NetworkError == "Failed to fetch"
SyntaxError == "Unexpected token"
NoStatus == 0

Statuses == {200, 204, 400, 404, 500}
StatusTexts == {"", "Not Found"}
FieldValues == {Undef, Str(""), Str("text")}
Bodies ==
    {[kind |-> "not json", message |-> Undef, error |-> Undef],
     [kind |-> "null", message |-> Undef, error |-> Undef]}
    \cup {[kind |-> "object", message |-> m, error |-> e] :
              m \in FieldValues, e \in {Undef, Str(""), Str("detail")}}

\* Response.ok: the status is in the range 200-299
Ok(status) == status >= 200 /\ status <= 299

Responses ==
    {[ok |-> Ok(st), status |-> st, statusText |-> tx, body |-> b] :
         st \in Statuses, tx \in StatusTexts, b \in Bodies}

NoResponse == [ok |-> FALSE, status |-> NoStatus, statusText |-> "",
               body |-> [kind |-> "not json", message |-> Undef, error |-> Undef]]
Pending == [state |-> "pending", data |-> Undef, message |-> "", status |-> NoStatus]
Resolved(data) == [state |-> "resolved", data |-> data, message |-> "", status |-> NoStatus]
Rejected(message, status) ==
    [state |-> "rejected", data |-> Undef, message |-> message, status |-> status]

\* a || b
JsOr(a, b) == IF JsTruthy(a) THEN a ELSE b

\* res.json() rejects
JsonFails(body) == body.kind = "not json"

\* errorData.message throws: errorData is null
PropertyThrows(body) == body.kind = "null"

\* Variant: the error field before the message field.
handleErrorErrorFirst(res) ==
    LET preset == Str(DefaultMessage)
        errorMessage ==
            IF JsonFails(res.body) \/ PropertyThrows(res.body)
            THEN JsOr(Str(res.statusText), preset)
            ELSE JsOr(res.body.error, JsOr(res.body.message, preset))
    IN  Rejected(errorMessage.str, res.status)
\* app.js:1376-1391
handleError(res) ==
    LET preset == Str(DefaultMessage)
        errorMessage ==
            IF JsonFails(res.body) \/ PropertyThrows(res.body)
            THEN JsOr(Str(res.statusText), preset)
            ELSE JsOr(res.body.message, JsOr(res.body.error, preset))
    IN  Rejected(errorMessage.str, res.status)

RequestIdle ==
    /\ reqPc = "idle"
    /\ reqResponse = NoResponse
    /\ reqOutcome = Pending

\* app.js:1334-1352  request up to await fetch
Request ==
    /\ reqPc \in {"idle", "settled"}
    /\ reqPc' = "fetching"
    /\ reqResponse' = NoResponse
    /\ reqOutcome' = Pending
    /\ UNCHANGED othersReq

\* app.js:1352, 1367-1370  fetch rejects: the catch block rethrows
FetchRejects ==
    /\ reqPc = "fetching"
    /\ reqPc' = "settled"
    /\ reqOutcome' = Rejected(NetworkError, NoStatus)
    /\ UNCHANGED reqResponse
    /\ UNCHANGED othersReq

\* app.js:1352-1361  fetch resolves: up to the await of res.json(), in
\* request or in handleError
FetchResolves(res) ==
    /\ reqPc = "fetching"
    /\ reqPc' = "reading"
    /\ reqResponse' = res
    /\ UNCHANGED reqOutcome
    /\ UNCHANGED othersReq

\* app.js:1355-1370, 1380-1390  res.json() settles
BodyRead ==
    /\ reqPc = "reading"
    /\ reqPc' = "settled"
    /\ reqOutcome' = IF ~reqResponse.ok THEN handleError(reqResponse)
                     ELSE IF JsonFails(reqResponse.body)
                          THEN Rejected(SyntaxError, NoStatus)
                          ELSE Resolved(reqResponse.body)
    /\ UNCHANGED reqResponse
    /\ UNCHANGED othersReq

NextRequest ==
    \/ Request
    \/ FetchRejects
    \/ \E res \in Responses : FetchResolves(res)
    \/ BodyRead

(***************************************************************************)
(* FinanceApp.init, switchSection, loadSectionData, refreshCurrentSection, *)
(* loadDashboard, loadAllTransactions, loadTransactions and                *)
(* updateDashboard (app.js:27-146, 247-338).  JavaScript runs a handler    *)
(* from one await to the next without interruption; init is cut into its   *)
(* calls, and nothing else runs between them.  Requests are numbered in    *)
(* the order of issue, and a response is named by the number of its        *)
(* request.                                                                *)
(***************************************************************************)
Containers == {"recentTransactions", "allTransactions"}
LoadSections == {"dashboard", "transactions", "stats"}
DateFilters == {"today", "month"}
None == 0

Skeleton == [state |-> "skeleton", seq |-> None]
Loading == [state |-> "loading", seq |-> None]
List(seq) == [state |-> "list", seq |-> seq]
ErrorState == [state |-> "error", seq |-> None]

LoaderIdle ==
    /\ initPc = "start"
    /\ categoriesFrom = "none"
    /\ chartsReady = FALSE
    /\ activeSection = "dashboard"
    /\ dateFilter = "today"
    /\ requests = {}
    /\ issued = 0
    /\ lastIssued = [c \in Containers |-> None]
    /\ shown = [c \in Containers |-> Skeleton]
    /\ stored = None
    /\ expenseChart = None

\* the container a section's loader fills
ContainerOf(section) ==
    IF section = "dashboard" THEN "recentTransactions" ELSE "allTransactions"

\* app.js:247-258, 287-305  loadDashboard or loadAllTransactions up to its
\* await: the container shows the spinner and the request leaves
StartLoad(section) ==
    /\ issued < MaxRequests
    /\ requests' = requests \cup {[seq |-> issued + 1, section |-> section,
                                   filter |-> dateFilter, charts |-> chartsReady]}
    /\ issued' = issued + 1
    /\ lastIssued' = [lastIssued EXCEPT ![ContainerOf(section)] = issued + 1]
    /\ shown' = [shown EXCEPT ![ContainerOf(section)] = Loading]

\* app.js:127-139  loadSectionData: loadStatistics asks for no transactions
loadSectionData(section) ==
    IF section \in {"dashboard", "transactions"}
    THEN StartLoad(section)
    ELSE UNCHANGED <<requests, issued, lastIssued, shown>>

\* app.js:27-32  init up to the await of loadCategories
Init ==
    /\ initPc = "start"
    /\ initPc' = "categories"
    /\ UNCHANGED <<categoriesFrom, chartsReady, activeSection, dateFilter, requests, issued,
                   lastIssued, shown, stored, expenseChart>>
    /\ UNCHANGED othersLoader

\* app.js:202-212, 35  the categories request settles; setupEventListeners
CategoriesSettle(ok) ==
    /\ initPc = "categories"
    /\ categoriesFrom' = IF ok THEN "server" ELSE "fallback"
    /\ initPc' = "ui"
    /\ UNCHANGED <<chartsReady, activeSection, dateFilter, requests, issued, lastIssued,
                   shown, stored, expenseChart>>
    /\ UNCHANGED othersLoader

\* app.js:38, 75-78, 85-122  initializeUI: switchSection('dashboard')
InitializeUI ==
    /\ initPc = "ui"
    /\ activeSection' = "dashboard"
    /\ loadSectionData("dashboard")
    /\ initPc' = "charts"
    /\ UNCHANGED <<categoriesFrom, chartsReady, dateFilter, stored, expenseChart>>
    /\ UNCHANGED othersLoader

\* app.js:41, 580-584
SetupCharts ==
    /\ initPc = "charts"
    /\ chartsReady' = TRUE
    /\ initPc' = "load"
    /\ UNCHANGED <<categoriesFrom, activeSection, dateFilter, requests, issued, lastIssued,
                   shown, stored, expenseChart>>
    /\ UNCHANGED othersLoader

\* app.js:44  init calls loadDashboard and awaits it
InitLoadDashboard ==
    /\ initPc = "load"
    /\ StartLoad("dashboard")
    /\ initPc' = "running"
    /\ UNCHANGED <<categoriesFrom, chartsReady, activeSection, dateFilter, stored,
                   expenseChart>>
    /\ UNCHANGED othersLoader

\* app.js:85-122  the user picks a section
switchSection(section) ==
    /\ initPc = "running"
    /\ activeSection' = section
    /\ loadSectionData(section)
    /\ UNCHANGED <<initPc, categoriesFrom, chartsReady, dateFilter, stored, expenseChart>>
    /\ UNCHANGED othersLoader

\* app.js:64-69, 144-146  the page becomes visible: refreshCurrentSection
VisibilityChange ==
    /\ initPc = "running"
    /\ activeSection \in {"dashboard", "transactions"}
    /\ loadSectionData(activeSection)
    /\ UNCHANGED <<initPc, categoriesFrom, chartsReady, activeSection, dateFilter, stored,
                   expenseChart>>
    /\ UNCHANGED othersLoader

\* app.js:326-329  the date filter changes and calls loadTransactions
loadTransactions(filter) ==
    /\ initPc = "running"
    /\ activeSection \in {"dashboard", "transactions"}
    /\ dateFilter' = filter
    /\ requests' = requests \cup {[seq |-> issued + 1, section |-> activeSection,
                                   filter |-> filter, charts |-> chartsReady]}
    /\ issued < MaxRequests
    /\ issued' = issued + 1
    /\ lastIssued' = [lastIssued EXCEPT ![ContainerOf(activeSection)] = issued + 1]
    /\ shown' = [shown EXCEPT ![ContainerOf(activeSection)] = Loading]
    /\ UNCHANGED <<initPc, categoriesFrom, chartsReady, activeSection, stored, expenseChart>>
    /\ UNCHANGED othersLoader

\* app.js:334-338  the date filter changes and calls updateDashboard
updateDashboard(filter) ==
    /\ initPc = "running"
    /\ activeSection = "dashboard"
    /\ dateFilter' = filter
    /\ requests' = requests \cup {[seq |-> issued + 1, section |-> "dashboard",
                                   filter |-> filter, charts |-> chartsReady]}
    /\ issued < MaxRequests
    /\ issued' = issued + 1
    /\ lastIssued' = [lastIssued EXCEPT !["recentTransactions"] = issued + 1]
    /\ shown' = [shown EXCEPT !["recentTransactions"] = Loading]
    /\ UNCHANGED <<initPc, categoriesFrom, chartsReady, activeSection, stored, expenseChart>>
    /\ UNCHANGED othersLoader

\* app.js:261-273, 311-314  a response arrives and its loader goes on:
\* this.transactions, the container and, on the dashboard, the chart
ResponseArrives(seq) ==
    /\ initPc = "running"
    /\ \E r \in requests :
           /\ r.seq = seq
           /\ requests' = requests \ {r}
           /\ stored' = r.seq
           /\ shown' = [shown EXCEPT ![ContainerOf(r.section)] = List(r.seq)]
           /\ expenseChart' = IF r.section = "dashboard" /\ chartsReady
                               THEN r.seq ELSE expenseChart
    /\ UNCHANGED <<initPc, categoriesFrom, chartsReady, activeSection, dateFilter, issued,
                   lastIssued>>
    /\ UNCHANGED othersLoader

\* app.js:276-280, 316-320  a request fails and its loader shows the error
RequestFailed(seq) ==
    /\ initPc = "running"
    /\ \E r \in requests :
           /\ r.seq = seq
           /\ requests' = requests \ {r}
           /\ shown' = [shown EXCEPT ![ContainerOf(r.section)] = ErrorState]
    /\ UNCHANGED <<initPc, categoriesFrom, chartsReady, activeSection, dateFilter, issued,
                   lastIssued, stored, expenseChart>>
    /\ UNCHANGED othersLoader

NextLoader ==
    \/ Init
    \/ \E ok \in BOOLEAN : CategoriesSettle(ok)
    \/ InitializeUI
    \/ SetupCharts
    \/ InitLoadDashboard
    \/ VisibilityChange
    \/ \E filter \in DateFilters : updateDashboard(filter)
    \/ \E filter \in DateFilters : loadTransactions(filter)
    \/ \E section \in LoadSections : switchSection(section)
    \/ \E seq \in 1..MaxRequests : ResponseArrives(seq)
    \/ \E seq \in 1..MaxRequests : RequestFailed(seq)

\* The components that are added after the first four, at rest.
RestIdle ==
    /\ TsIdle
    /\ SeedIdle
    /\ ValidateIdle
    /\ ModalIdle
    /\ RequestIdle
    /\ LoaderIdle

(***************************************************************************)
(* Specifications: one per component, the other components at rest.        *)
(***************************************************************************)
InitRetry ==
    /\ RetryIdle
    /\ AppIdle
    /\ TgIdle
    /\ DbEmpty
    /\ RestIdle

SpecRetry == InitRetry /\ [][NextRetry]_vars

InitStatsSpec ==
    /\ RetryIdle
    /\ InitStats
    /\ TgIdle
    /\ DbEmpty
    /\ RestIdle

SpecStats == InitStatsSpec /\ [][NextStats]_vars

InitTelegram ==
    /\ RetryIdle
    /\ AppIdle
    /\ TgConstructed
    /\ DbEmpty
    /\ RestIdle

SpecTelegram == InitTelegram /\ [][NextTelegram]_vars

InitDb ==
    /\ RetryIdle
    /\ AppIdle
    /\ TgIdle
    /\ DbEmpty
    /\ RestIdle

SpecDb == InitDb /\ [][NextDb]_vars

InitTimestamps ==
    /\ RetryIdle
    /\ AppIdle
    /\ TgIdle
    /\ DbEmpty
    /\ TsIdle
    /\ SeedIdle
    /\ ValidateIdle
    /\ ModalIdle
    /\ RequestIdle
    /\ LoaderIdle

SpecTimestamps == InitTimestamps /\ [][NextTimestamps]_vars

InitSeed ==
    /\ RetryIdle
    /\ AppIdle
    /\ TgIdle
    /\ DbEmpty
    /\ TsIdle
    /\ SeedIdle
    /\ ValidateIdle
    /\ ModalIdle
    /\ RequestIdle
    /\ LoaderIdle

SpecSeed == InitSeed /\ [][NextSeed]_vars

InitValidate ==
    /\ RetryIdle
    /\ AppIdle
    /\ TgIdle
    /\ DbEmpty
    /\ TsIdle
    /\ SeedIdle
    /\ ModalIdle
    /\ RequestIdle
    /\ LoaderIdle
    /\ vData \in FormData
    /\ vResult = NoResult

SpecValidate == InitValidate /\ [][NextValidate]_vars

InitModal ==
    /\ RetryIdle
    /\ AppIdle
    /\ TgIdle
    /\ DbEmpty
    /\ TsIdle
    /\ SeedIdle
    /\ ValidateIdle
    /\ ModalIdle
    /\ RequestIdle
    /\ LoaderIdle

SpecModal == InitModal /\ [][NextModal]_vars

InitRequest ==
    /\ RetryIdle
    /\ AppIdle
    /\ TgIdle
    /\ DbEmpty
    /\ TsIdle
    /\ SeedIdle
    /\ ValidateIdle
    /\ ModalIdle
    /\ RequestIdle
    /\ LoaderIdle

SpecRequest == InitRequest /\ [][NextRequest]_vars

InitLoader ==
    /\ RetryIdle
    /\ AppIdle
    /\ TgIdle
    /\ DbEmpty
    /\ TsIdle
    /\ SeedIdle
    /\ ValidateIdle
    /\ ModalIdle
    /\ RequestIdle
    /\ LoaderIdle

SpecLoader == InitLoader /\ [][NextLoader]_vars

(***************************************************************************)
(* Claims about API.retryRequest                                           *)
(***************************************************************************)
RECURSIVE Pow2(_)
Pow2(n) == IF n = 0 THEN 1 ELSE 2 * Pow2(n - 1)

FailedCalls == {k \in 1..Len(calls) : calls[k].state = "failed"}

\* C1: with maxRetries >= 1, requestFn is called at most maxRetries times and
\* one call at a time (every call but the newest has failed, so no call
\* follows a success); the promise resolves with the value of the call that
\* succeeded, and rejects exactly when all maxRetries calls failed, with the
\* error of the last call.
C1_RetryOutcome ==
    (retryPc # "idle" /\ maxRetries >= 1) =>
        /\ Len(calls) <= maxRetries
        /\ \A k \in 1..(Len(calls) - 1) : calls[k].state = "failed"
        /\ \A k \in 1..Len(calls) :
               calls[k].state = "ok" =>
                   retryResult = [kind |-> "resolved", value |-> calls[k].value]
        /\ (Len(calls) = maxRetries /\ calls[maxRetries].state = "failed") =>
               retryResult = [kind |-> "rejected", value |-> calls[maxRetries].value]
        /\ retryResult.kind = "resolved" => calls[Len(calls)].state = "ok"
        /\ retryResult.kind = "rejected" =>
               (Len(calls) = maxRetries /\ calls[maxRetries].state = "failed")

\* Three calls were made, all failed, the first and the last with different
\* errors, and the promise is rejected.
C1_Witness ==
    /\ maxRetries = 3
    /\ retryResult.kind = "rejected"
    /\ Len(calls) = 3
    /\ calls[1].value # calls[3].value

\* C2: the k-th wait is delay * 2^(k-1), and there is exactly one wait per
\* failed attempt k with k < maxRetries: none after the final failed attempt,
\* none after a success.
C2_Backoff ==
    retryPc # "idle" =>
        /\ \A k \in 1..Len(waits) : waits[k] = initialDelay * Pow2(k - 1)
        /\ Len(waits) = Cardinality({k \in FailedCalls : k < maxRetries})

\* Two waits of 1000 and 2000 ms happened and the third attempt failed too.
C2_Witness ==
    /\ initialDelay = 1000
    /\ waits = <<1000, 2000>>
    /\ retryResult.kind = "rejected"

(***************************************************************************)
(* Claims about FinanceApp.calculateStats                                  *)
(***************************************************************************)
\* calculateStats has run on the list that this.transactions holds.
StatsFresh == lastLoad = "dashboard"

RECURSIVE SumAmounts(_, _)
\* The sum of the amounts of the rows of txs at the positions in idx.
SumAmounts(txs, idx) ==
    IF idx = {} THEN 0
    ELSE LET k == CHOOSE x \in idx : TRUE
         IN  txs[k].amount + SumAmounts(txs, idx \ {k})

OfType(txs, ty) == {k \in 1..Len(txs) : txs[k].type = ty}

\* C3: after calculateStats totalIncome is the sum of the income amounts,
\* totalExpense the sum of the expense amounts, balance their difference and
\* count the length of the list.
C3_SumsCorrect ==
    StatsFresh =>
        /\ stats.totalIncome = SumAmounts(transactions, OfType(transactions, "income"))
        /\ stats.totalExpense = SumAmounts(transactions, OfType(transactions, "expense"))
        /\ stats.balance = stats.totalIncome - stats.totalExpense
        /\ stats.count = Len(transactions)

\* Three rows of both types were loaded and summed.
C3_Witness ==
    /\ StatsFresh
    /\ Len(transactions) = 3
    /\ stats.totalIncome = 2
    /\ stats.totalExpense = 3
    /\ stats.balance = -1

\* C4: after calculateStats avgExpense is the arithmetic mean of the expense
\* amounts (avgExpense * number of expenses = sum of expenses), and 0 when
\* the list has no expense.
C4_AvgExpense ==
    StatsFresh =>
        LET expenses == OfType(transactions, "expense")
        IN  IF expenses = {}
            THEN stats.avgExpense = Zero
            ELSE /\ stats.avgExpense.den # 0
                 /\ stats.avgExpense.num * Cardinality(expenses)
                        = SumAmounts(transactions, expenses) * stats.avgExpense.den

\* Two expenses of 1 and 2 next to an income: the mean is 3/2.
C4_Witness ==
    /\ StatsFresh
    /\ Len(transactions) = 3
    /\ Cardinality(OfType(transactions, "income")) = 1
    /\ stats.avgExpense = [num |-> 3, den |-> 2]

\* The category an expense row counts under.
CategoryOf(t) == IF t.category_name = NoName THEN Prochee ELSE t.category_name

ExpenseCategories(txs) == {CategoryOf(txs[k]) : k \in OfType(txs, "expense")}

CategoryTotal(txs, c) ==
    SumAmounts(txs, {k \in OfType(txs, "expense") : CategoryOf(txs[k]) = c})

MaximalCategories(txs) ==
    {c \in ExpenseCategories(txs) :
        \A d \in ExpenseCategories(txs) : CategoryTotal(txs, c) >= CategoryTotal(txs, d)}

\* The position of the first expense row of category c.
FirstSeen(txs, c) ==
    CHOOSE k \in OfType(txs, "expense") :
        /\ CategoryOf(txs[k]) = c
        /\ \A j \in OfType(txs, "expense") : CategoryOf(txs[j]) = c => k <= j

InSeq(x, seq) == \E k \in 1..Len(seq) : seq[k] = x

\* The bridge object has the method (the claim's "provides").
Provided(m) == tg = Bridge /\ sdk.present /\ m \in sdk.methods

C8_MockOnlyInDevelopment ==
    (user = MockUser \/ initData = MockInitData) => IsDevelopment(hostname)

(***************************************************************************)
(* Claims about the schema                                                 *)
(***************************************************************************)
ReferencesHold ==
    \A t \in dbTransactions :
        /\ \E u \in dbUsers : u.id = t.user_id
        /\ t.category_id # SqlNull => \E c \in dbCategories : c.id = t.category_id

\* C9: in every reachable database state every transaction references an
\* existing user and, unless its category_id is NULL, an existing category;
\* a DELETE of a user removes the user and leaves none of that user's
\* transactions; a DELETE of a category removes the category and keeps every
\* transaction that used it, with category_id NULL and nothing else changed.
C9_ForeignKeys ==
    /\ []ReferencesHold
    /\ [][\A u \in UserIds :
              DeleteUser(u) =>
                  /\ u \notin Ids(dbUsers')
                  /\ \A t \in dbTransactions' : t.user_id # u]_vars
    /\ [][\A c \in CategoryIds :
              DeleteCategory(c) =>
                  /\ c \notin Ids(dbCategories')
                  /\ Cardinality(dbTransactions') = Cardinality(dbTransactions)
                  /\ \A t \in dbTransactions :
                         t.category_id = c =>
                             [t EXCEPT !.category_id = SqlNull] \in dbTransactions']_vars

\* A category was deleted last; a transaction without category is left, next
\* to a transaction that still has one.
C9_Witness ==
    /\ dbLast = "DeleteCategory"
    /\ Cardinality(dbCategories) = 1
    /\ \E t1, t2 \in dbTransactions : t1.category_id = SqlNull /\ t2.category_id # SqlNull

ConstraintsHold ==
    /\ \A t \in dbTransactions : t.amount > 0 /\ t.type \in {"income", "expense"}
    /\ \A c \in dbCategories : c.type \in {"income", "expense"}
    /\ \A u1, u2 \in dbUsers : u1 # u2 => u1.telegram_user_id # u2.telegram_user_id
    /\ \A c1, c2 \in dbCategories : c1 # c2 => c1.name # c2.name

\* C10: in every reachable database state every transaction has amount > 0
\* and a type of income or expense, every category has such a type, no two
\* users share a telegram_user_id and no two categories a name; a rejected
\* statement leaves the three tables unchanged.  (A statement either commits
\* its row or is rejected, so the first part says that every violating
\* insert or update is rejected.)
C10_Constraints ==
    /\ []ConstraintsHold
    /\ [][dbLast' = "rejected" => UNCHANGED dbTables]_vars

\* A statement was rejected on a database that holds two users, two
\* categories and a transaction.
C10_Witness ==
    /\ dbLast = "rejected"
    /\ Cardinality(dbUsers) = 2
    /\ Cardinality(dbCategories) = 2
    /\ dbTransactions # {}

(***************************************************************************)
(* C11: timestamps                                                         *)
(***************************************************************************)
Supplied == Times \cup {Unset}

\* the row of a table with the given key
RowOf(table, id) == CHOOSE r \in table : r.id = id

\* An UPDATE of a users row leaves updated_at at the time of the update and
\* created_at as the statement left it.
UserUpdateStamped ==
    \A id \in TsIds, c, u \in Supplied :
        TsUpdateUser(id, c, u) =>
            /\ RowOf(tsUsers', id).updated_at = now
            /\ RowOf(tsUsers', id).created_at =
                   (IF c = Unset THEN RowOf(tsUsers, id).created_at ELSE c)

\* The same of a transactions row, also when the update is the SET NULL of a
\* deleted category.
TransactionUpdateStamped ==
    /\ \A id \in TsIds, cat \in TsCategoryIds \cup {SqlNull}, c, u \in Supplied :
           TsUpdateTransaction(id, cat, c, u) =>
               /\ RowOf(tsTransactions', id).updated_at = now
               /\ RowOf(tsTransactions', id).created_at =
                      (IF c = Unset THEN RowOf(tsTransactions, id).created_at ELSE c)
    /\ \A cat \in TsCategoryIds :
           TsDeleteCategory(cat) =>
               \A t \in tsTransactions :
                   t.category_id = cat =>
                       /\ RowOf(tsTransactions', t.id).updated_at = now
                       /\ RowOf(tsTransactions', t.id).created_at = t.created_at

\* An INSERT that names neither column stores the insertion time in both.
InsertStamped ==
    /\ \A id \in TsIds :
           TsInsertUser(id, Unset, Unset) =>
               /\ RowOf(tsUsers', id).created_at = now
               /\ RowOf(tsUsers', id).updated_at = now
    /\ \A id \in TsIds, cat \in TsCategoryIds \cup {SqlNull} :
           TsInsertTransaction(id, cat, Unset, Unset) =>
               /\ RowOf(tsTransactions', id).created_at = now
               /\ RowOf(tsTransactions', id).updated_at = now

\* A categories row has no timestamp column.
CategoriesUnstamped ==
    \A c \in tsCategories : DOMAIN c = {"id", "is_active"}

\* C11: every UPDATE of a users or transactions row sets updated_at to the
\* time of the update whatever the statement supplies and leaves created_at
\* as the statement left it; an INSERT sets both to the insertion time by
\* default; categories rows carry no update timestamp.
C11_Timestamps ==
    /\ []CategoriesUnstamped
    /\ [][UserUpdateStamped /\ TransactionUpdateStamped /\ InsertStamped]_vars

\* An UPDATE has just run on a row inserted earlier with a created_at of its
\* own, a category has been updated, and the clock has moved since.
C11_Witness ==
    /\ tsLast = "update"
    /\ \E u \in tsUsers : u.updated_at = now /\ u.created_at > now
    /\ \E t \in tsTransactions : t.updated_at < now
    /\ \E c \in tsCategories : ~c.is_active
    /\ now > 0

(***************************************************************************)
(* C12: the seed migration                                                 *)
(***************************************************************************)
OfSeedType(table, type) == {r \in table : r.type = type}

\* Applied to the empty table, the migration leaves 15 expense rows and 5
\* income rows of 20 distinct names.
SeedsEmptyTable ==
    seedCategories = {} /\ ApplyMigration =>
        /\ Cardinality(OfSeedType(seedCategories', "expense")) = 15
        /\ Cardinality(OfSeedType(seedCategories', "income")) = 5
        /\ Cardinality(seedCategories') = 20
        /\ Cardinality(Names(seedCategories')) = 20
        /\ Names(seedCategories') = Range(ExpenseSeed) \cup Range(IncomeSeed)

\* Applied to any table, it does not fail, keeps every row as it is and adds
\* one row for each of its names that is missing, and nothing else.
SeedsOnlyMissing ==
    ApplyMigration =>
        /\ seedLast' = "migrated"
        /\ seedCategories \subseteq seedCategories'
        /\ Names(seedCategories' \ seedCategories) =
               (Range(ExpenseSeed) \cup Range(IncomeSeed)) \ Names(seedCategories)
        /\ Cardinality(seedCategories' \ seedCategories) =
               Cardinality(Names(seedCategories' \ seedCategories))
        /\ \A r \in seedCategories' \ seedCategories :
               r.type = (IF r.name \in Range(ExpenseSeed) THEN "expense" ELSE "income")

\* C12: applying migration 002 to an empty categories table yields exactly
\* 15 expense and 5 income categories of 20 distinct names; applying it
\* again, or to a table that holds some of the names, adds only the missing
\* names, never fails on a duplicate and never changes an existing row.
C12_SeedIdempotent == [][SeedsEmptyTable /\ SeedsOnlyMissing]_vars

\* The migration has run a second time on a table that held some of its
\* names, one of them with the other type, and a name of its own.
C12_Witness ==
    /\ seedRuns = 2
    /\ seedLast = "migrated"
    /\ \E r \in seedCategories : r.name = "Produkty" /\ r.type = "income"
    /\ \E r \in seedCategories : r.name = "Zarplata" /\ r.id > 20
    /\ \E r \in seedCategories : r.name = "Kredit"

(***************************************************************************)
(* C13: validateTransaction                                                *)
(***************************************************************************)
\* the four rules, as the data satisfies them
TypeRule(data) == data.type = Str("income") \/ data.type = Str("expense")
AmountRule(data) == data.amount.kind = "number" /\ data.amount.num > 0
CategoryRule(data) == JsTruthy(data.category_id)
DateRule(data) == data.date.kind = "string" /\ data.date.str # ""

Message(holds, text) == IF holds THEN <<>> ELSE <<text>>

\* C13: validateTransaction returns valid = true exactly when type is
\* 'income' or 'expense', amount is a number greater than zero, category_id
\* is truthy and date is non-empty; otherwise errors holds exactly one
\* message per violated rule, in the order type, amount, category, date.
C13_Validation ==
    vResult # NoResult =>
        /\ vResult.valid = (TypeRule(vData) /\ AmountRule(vData) /\ CategoryRule(vData)
                               /\ DateRule(vData))
        /\ vResult.errors = Message(TypeRule(vData), TypeError)
                               \o Message(AmountRule(vData), AmountError)
                               \o Message(CategoryRule(vData), CategoryError)
                               \o Message(DateRule(vData), DateError)

\* A negative amount and an empty date, with a valid type and category, have
\* been reported as two errors.
C13_Witness ==
    /\ vData.amount = Num(-1)
    /\ vData.type = Str("expense")
    /\ vResult.errors = <<AmountError, DateError>>

(***************************************************************************)
(* C14: saveTransaction on invalid data                                    *)
(***************************************************************************)
Writes == {"POST", "PUT"}

\* A POST or PUT in flight carries data that validateTransaction accepts.
WritesAreValid ==
    inFlight.method \in Writes => validateTransaction(inFlight.data).valid

\* saveTransaction on a form that validateTransaction rejects shows the
\* errors, issues nothing and leaves the modal, currentTransaction, the
\* loaded transactions and the section as they are.
InvalidSaveStops ==
    saveTransaction /\ ~validateTransaction(FormDataOf(form)).valid =>
        /\ inFlight' = NoRequest
        /\ handlerPc' = "idle"
        /\ handlerLog' = <<"showError">>
        /\ alertShown' = validateTransaction(FormDataOf(form)).errors
        /\ alertShown' # NoAlert
        /\ UNCHANGED <<modalActive, modalClosing, currentTransaction, loaded,
                       currentSection>>

\* C14: saveTransaction never issues a POST or PUT for data that
\* validateTransaction reports invalid; then the error is shown, the modal
\* stays open, and currentTransaction, the loaded transactions and the
\* current section are unchanged.
C14_InvalidNotSaved == []WritesAreValid /\ [][InvalidSaveStops]_vars

\* saveTransaction has run on a form with an unparsable amount and shown the
\* amount error; the modal is open.
C14_Witness ==
    /\ handlerLog = <<"showError">>
    /\ handlerPc = "idle"
    /\ form.amount = <<"a">>
    /\ alertShown = <<AmountError>>
    /\ modalActive /\ ~modalClosing

(***************************************************************************)
(* C15: deleteTransaction                                                  *)
(***************************************************************************)
\* A DELETE in flight names a transaction and follows the user's yes to the
\* question.
DeleteWasConfirmed ==
    inFlight.method = "DELETE" =>
        /\ inFlight.id # ""
        /\ handlerLog = <<ConfirmText, "confirmed", "DELETE">>

\* Without an id, or when the user declines, the handler ends with no
\* request, the modal as it was and nothing reloaded.
DeleteStops ==
    \/ deleteTransaction /\ form.transactionId = ""
    \/ ConfirmAnswered(FALSE)
    => /\ inFlight' = NoRequest
       /\ handlerPc' = "idle"
       /\ UNCHANGED <<modalActive, modalClosing, currentTransaction, loaded>>

\* C15: deleteTransaction sends the DELETE request only after the user has
\* confirmed the question, and only when the form holds a non-empty
\* transaction id; if the id is empty or the user declines, no request is
\* sent, the modal stays open and nothing is reloaded.
C15_DeleteConfirmed == []DeleteWasConfirmed /\ [][DeleteStops]_vars

\* The DELETE of the edited transaction is in flight.
C15_Witness ==
    /\ inFlight = [method |-> "DELETE", id |-> ExistingId, data |-> Undef]
    /\ handlerPc = "deleting"
    /\ modalActive

(***************************************************************************)
(* C17: saveTransaction on valid data                                      *)
(***************************************************************************)
\* what a run of saveTransaction that passed validation may have done so far
SaveRuns(method) ==
    {<<method>>,
     <<method, "showError">>,
     <<method, "showSuccess", "closeModal", "GET">>,
     <<method, "showSuccess", "closeModal", "GET", "loaded">>,
     <<method, "showSuccess", "closeModal", "GET", "load failed">>}

\* A handler that has issued a POST or PUT has issued one, and has closed
\* the modal and reloaded only after its success, in this order.
SaveRunsInOrder ==
    Len(handlerLog) > 0 /\ handlerLog[1] \in Writes => handlerLog \in SaveRuns(handlerLog[1])

\* On valid data the one request is a PUT for a non-empty transactionId and
\* a POST otherwise, and the modal is not touched yet.
ValidSaveRequests ==
    saveTransaction /\ validateTransaction(FormDataOf(form)).valid =>
        /\ inFlight' = [method |-> IF form.transactionId = "" THEN "POST" ELSE "PUT",
                        id |-> form.transactionId, data |-> FormDataOf(form)]
        /\ handlerLog' = <<inFlight'.method>>
        /\ UNCHANGED <<modalActive, modalClosing, currentTransaction, loaded>>

\* Success closes the modal and starts the reload of the current section.
SuccessClosesAndReloads ==
    SaveResolves =>
        /\ modalClosing'
        /\ currentTransaction' = Null
        /\ inFlight' = [method |-> "GET", id |-> currentSection, data |-> Undef]

\* Failure leaves the modal and currentTransaction and reloads nothing.
FailureLeavesModal ==
    (\E message \in ServerErrors : SaveRejects(message)) =>
        /\ inFlight' = NoRequest
        /\ handlerPc' = "idle"
        /\ UNCHANGED <<modalActive, modalClosing, currentTransaction, loaded>>

\* C17: for valid form data saveTransaction issues exactly one request, a
\* PUT when the hidden transactionId field is non-empty and a POST
\* otherwise; only after it succeeds is the modal closed and then the
\* current section reloaded; if it fails the modal is not closed,
\* currentTransaction is unchanged and no reload happens.
C17_SaveThenCloseThenReload ==
    /\ []SaveRunsInOrder
    /\ [][ValidSaveRequests /\ SuccessClosesAndReloads /\ FailureLeavesModal]_vars

\* An update has succeeded, the modal is closing and the reload has stored
\* its response.
C17_Witness ==
    /\ handlerLog = <<"PUT", "showSuccess", "closeModal", "GET", "loaded">>
    /\ loaded = "list2"
    /\ currentTransaction = Null
    /\ alertShown = <<Updated>>

(***************************************************************************)
(* C16: API.request                                                        *)
(***************************************************************************)
Settled == reqPc = "settled" /\ reqResponse # NoResponse

Present(field) == field # Undef /\ field # Str("")

\* statusText, or the default text when it is empty
StatusTextOrDefault(res) ==
    IF res.statusText # "" THEN res.statusText ELSE DefaultMessage

\* the message of the claim: statusText only when the body is not JSON
ClaimedMessage(res) ==
    IF Present(res.body.message) THEN res.body.message.str
    ELSE IF Present(res.body.error) THEN res.body.error.str
    ELSE IF res.body.kind = "not json" THEN StatusTextOrDefault(res)
    ELSE DefaultMessage

\* the message of the code: statusText also when the body is the JSON null
ActualMessage(res) ==
    IF res.body.kind \in {"not json", "null"} THEN StatusTextOrDefault(res)
    ELSE IF Present(res.body.message) THEN res.body.message.str
    ELSE IF Present(res.body.error) THEN res.body.error.str
    ELSE DefaultMessage

\* A request that failed has no data.
FailedHasNoData == reqOutcome.state = "rejected" => reqOutcome.data = Undef

\* C16 as claimed: request resolves with the parsed JSON body when the
\* response is OK; for every non-OK response it rejects with an Error whose
\* status is the response status and whose message is the body's message
\* field if present, else its error field, else (when the body is not JSON)
\* statusText, else the default text; a failed request never resolves with
\* data.
C16_RequestContract ==
    /\ FailedHasNoData
    /\ Settled /\ reqResponse.ok => reqOutcome = Resolved(reqResponse.body)
    /\ Settled /\ ~reqResponse.ok =>
           reqOutcome = Rejected(ClaimedMessage(reqResponse), reqResponse.status)

\* C16 amended: request resolves with the parsed body when the response is
\* OK and its body is JSON; an OK response whose body is not JSON rejects
\* with the parse error, and a fetch that fails rejects with its error,
\* neither with a status; for every non-OK response it rejects with an Error
\* whose status is the response status and whose message is statusText, or
\* the default text if that is empty, when the body is not JSON or is null,
\* and else the body's non-empty message field, else its non-empty error
\* field, else the default text; a failed request never resolves with data.
C16_RequestContractParsed ==
    /\ FailedHasNoData
    /\ reqPc = "settled" /\ reqResponse = NoResponse =>
           reqOutcome = Rejected(NetworkError, NoStatus)
    /\ Settled /\ reqResponse.ok /\ reqResponse.body.kind # "not json" =>
           reqOutcome = Resolved(reqResponse.body)
    /\ Settled /\ reqResponse.ok /\ reqResponse.body.kind = "not json" =>
           reqOutcome = Rejected(SyntaxError, NoStatus)
    /\ Settled /\ ~reqResponse.ok =>
           reqOutcome = Rejected(ActualMessage(reqResponse), reqResponse.status)

\* A 404 whose body has an empty message and an error field has been
\* rejected with the error field.
C16_Witness ==
    /\ Settled
    /\ reqResponse.status = 404
    /\ reqResponse.body.message = Str("")
    /\ reqOutcome = Rejected("detail", 404)

(***************************************************************************)
(* C18: the order of init                                                  *)
(***************************************************************************)
\* C18: during init the categories are loaded first, the charts are set up
\* before data is loaded and the initial data is loaded after the charts
\* are ready: no dashboard transaction request is issued before setupCharts
\* has completed.
C18_ChartsBeforeData ==
    \A r \in requests :
        /\ categoriesFrom # "none"
        /\ r.section = "dashboard" => r.charts /\ chartsReady

(***************************************************************************)
(* C19: concurrent loads                                                   *)
(***************************************************************************)
\* C19: under any interleaving of section switches, date-filter changes,
\* visibility refreshes and responses, once no request is in flight each
\* transaction list container shows the response to the request that was
\* issued last for it, never the response to an earlier request.
C19_LatestResponseShown ==
    requests = {} =>
        \A c \in Containers :
            shown[c].state = "list" => shown[c].seq = lastIssued[c]

====
